---- MODULE Spec2Model ----
(***************************************************************************)
(* Credit-risk scoring pipeline: score mapper, REST scoring handlers,      *)
(* dashboard PAN check and what-if simulator, fairness analyzer, model     *)
(* explainer and model-loading services, credit-bureau client.             *)
(*                                                                         *)
(* Probabilities are exact dyadic rationals n / PDen with PDen = 2^PBits;  *)
(* on these inputs the float expression 900 - p * 600 is computed without  *)
(* rounding error, so the integer arithmetic below is what the code        *)
(* computes.                                                               *)
(***************************************************************************)
EXTENDS Integers, Sequences, FiniteSets, TLC

VARIABLES
    pc,         \* position of the caller: "idle" or "returned"
    call,       \* the last call of a pure function: [fn, arg, ret]
    prev,       \* the cibil_score call before it
    model,      \* the loaded risk model artifact (read-only after start-up)
    req,        \* the HTTP request / dashboard input being handled
    resp,       \* the response produced for req
    modelCalls, \* feature rows passed to model.predict_proba while handling req
    data,       \* FairnessAnalyzer.data: protected column -> sequence of group values
    fcall,      \* the last FairnessAnalyzer method call: [fn, args..., ret]
    artifact,   \* the model files on disk: file -> [state, kind]
    mx,         \* the fields of the shared ModelExplainer object
    th,         \* threads using the ModelExplainer: thread -> [pc, locals, result]
    loads,      \* how often each process has deserialised its model artifact
    api,        \* the lending API (FastAPI): the last health and predict responses
    flask,      \* the scoring API (Flask) process: state and last health response
    bureauCalls,\* PANs handed to get_credit_profile while handling req
    bureau      \* a bureau lookup in progress: clients, provider exchange, locals

\* the state of the function library, the scoring API handlers and the analyzer
libVars == <<pc, call, prev, model, req, resp, modelCalls, data, fcall>>
\* the state of the model-loading services
svcVars == <<artifact, mx, th, loads, api, flask>>
\* the state of the credit-bureau client
bureauVars == <<bureauCalls, bureau>>

vars == <<pc, call, prev, model, req, resp, modelCalls, data, fcall,
          artifact, mx, th, loads, api, flask, bureauCalls, bureau>>

(***************************************************************************)
(* Bounds                                                                  *)
(***************************************************************************)
PBits == 6          \* probabilities are multiples of 2^-PBits
ProbOver == 2       \* grid points generated below 0 and above 1
ScoreMargin == 5    \* scores generated below 300 and above 900
MaxVal == 1         \* feature values are 0..MaxVal
MaxBatch == 3       \* records in a fairness batch
NumGroups == 3      \* group values of the first protected attribute
MaxLoads == 3       \* artifact loads counted per process

RECURSIVE Pow2(_)
Pow2(k) == IF k = 0 THEN 1 ELSE 2 * Pow2(k - 1)

PDen == Pow2(PBits)
ProbNums == (0 - ProbOver)..(PDen + ProbOver)
UnitProbNums == 0..PDen
Scores == (300 - ScoreMargin)..(900 + ScoreMargin)

None == [fn |-> "none"]

\* the model-loading services are not part of the run
ServiceOff ==
    /\ artifact = None
    /\ mx = None
    /\ th = None
    /\ loads = None
    /\ api = None
    /\ flask = None

\* the credit-bureau client is not part of the run
BureauOff ==
    /\ bureauCalls = None
    /\ bureau = None

(***************************************************************************)
(* Python helpers                                                          *)
(***************************************************************************)
\* int(a / b) for b > 0: truncation toward zero
IntTrunc(a, b) == IF a >= 0 THEN a \div b ELSE 0 - ((0 - a) \div b)

Abs(x) == IF x < 0 THEN 0 - x ELSE x

(***************************************************************************)
(* Score mapper                                                            *)
(***************************************************************************)
\* mutation of cibil_score: rounds to nearest instead of truncating
cibil_score_round(n) == IntTrunc(2 * (900 * PDen - n * 600) + PDen, 2 * PDen)

\* mutation of cibil_score: span 500 instead of 600
cibil_score_span(n) == IntTrunc(900 * PDen - n * 500, PDen)

\* mutation of cibil_score: not monotone (distance from 1/2)
cibil_score_fold(n) == IntTrunc(900 * PDen - Abs(2 * n - PDen) * 600, PDen)

\* flask_api.cibil_score(prob) with prob = n / PDen
cibil_score(n) == IntTrunc(900 * PDen - n * 600, PDen)

\* app.cibil(p) with p = n / PDen
cibil(n) == IntTrunc(900 * PDen - n * 600, PDen)

\* mutation of get_decision: strict comparisons
get_decision_strict(score) ==
    IF score > 750
    THEN [decision |-> "AUTO-APPROVED", color |-> "green", reason |-> "Excellent creditworthiness"]
    ELSE IF score > 650
    THEN [decision |-> "MANUAL REVIEW", color |-> "yellow", reason |-> "Good profile, needs underwriter check"]
    ELSE IF score > 550
    THEN [decision |-> "MANUAL REVIEW", color |-> "orange", reason |-> "Fair profile, higher scrutiny needed"]
    ELSE [decision |-> "REJECTED", color |-> "red", reason |-> "High default risk"]

\* flask_api.get_decision(score)
get_decision(score) ==
    IF score >= 750
    THEN [decision |-> "AUTO-APPROVED", color |-> "green", reason |-> "Excellent creditworthiness"]
    ELSE IF score >= 650
    THEN [decision |-> "MANUAL REVIEW", color |-> "yellow", reason |-> "Good profile, needs underwriter check"]
    ELSE IF score >= 550
    THEN [decision |-> "MANUAL REVIEW", color |-> "orange", reason |-> "Fair profile, higher scrutiny needed"]
    ELSE [decision |-> "REJECTED", color |-> "red", reason |-> "High default risk"]

\* app.grade(s)
grade(s) ==
    IF s >= 750 THEN [grade |-> "EXCELLENT", color |-> "#22c55e", badge |-> "badge-green"]
    ELSE IF s >= 650 THEN [grade |-> "GOOD", color |-> "#f0c040", badge |-> "badge-orange"]
    ELSE IF s >= 550 THEN [grade |-> "FAIR", color |-> "#f97316", badge |-> "badge-orange"]
    ELSE [grade |-> "POOR", color |-> "#ef4444", badge |-> "badge-red"]

(***************************************************************************)
(* Score mapper: calls of the pure functions                               *)
(***************************************************************************)
\* a caller evaluates flask_api.cibil_score(n / PDen)
CallCibilScore ==
    /\ pc = "idle"
    /\ \E n \in ProbNums :
         call' = [fn |-> "cibil_score", arg |-> n, ret |-> cibil_score(n)]
    /\ pc' = "returned"
    /\ UNCHANGED <<prev, model, req, resp, modelCalls, data, fcall, svcVars, bureauVars>>

\* a caller evaluates app.cibil(n / PDen)
CallCibil ==
    /\ pc = "idle"
    /\ \E n \in ProbNums :
         call' = [fn |-> "cibil", arg |-> n, ret |-> cibil(n)]
    /\ pc' = "returned"
    /\ UNCHANGED <<prev, model, req, resp, modelCalls, data, fcall, svcVars, bureauVars>>

\* a caller evaluates flask_api.get_decision(s)
CallGetDecision ==
    /\ pc = "idle"
    /\ \E s \in Scores :
         call' = [fn |-> "get_decision", arg |-> s, ret |-> get_decision(s)]
    /\ pc' = "returned"
    /\ UNCHANGED <<prev, model, req, resp, modelCalls, data, fcall, svcVars, bureauVars>>

\* a caller evaluates app.grade(s)
CallGrade ==
    /\ pc = "idle"
    /\ \E s \in Scores :
         call' = [fn |-> "grade", arg |-> s, ret |-> grade(s)]
    /\ pc' = "returned"
    /\ UNCHANGED <<prev, model, req, resp, modelCalls, data, fcall, svcVars, bureauVars>>

\* the caller consumes the result; the last cibil_score call is remembered
ReturnScore ==
    /\ pc = "returned"
    /\ pc' = "idle"
    /\ prev' = IF call.fn = "cibil_score" THEN call ELSE prev
    /\ call' = None
    /\ UNCHANGED <<model, req, resp, modelCalls, data, fcall, svcVars, bureauVars>>

InitScore ==
    /\ pc = "idle"
    /\ call = None
    /\ prev = None
    /\ model = None
    /\ req = None
    /\ resp = None
    /\ modelCalls = <<>>
    /\ data = None
    /\ fcall = None
    /\ ServiceOff
    /\ BureauOff

NextScore ==
    \/ CallCibilScore
    \/ CallCibil
    \/ CallGetDecision
    \/ CallGrade
    \/ ReturnScore

SpecScore == InitScore /\ [][NextScore]_vars

(***************************************************************************)
(* Score mapper: properties                                                *)
(***************************************************************************)
\* a returned call of one of the two probability-to-score functions
IsScoreCall == pc = "returned" /\ call.fn \in {"cibil_score", "cibil"}

\* PDen times the affine value 900 - 600 * p of the call's argument
AffineTimesDen == 900 * PDen - call.arg * 600

C2_BandsPartition ==
    (pc = "returned" /\ call.fn = "get_decision") =>
        LET s == call.arg
            d == call.ret
        IN  /\ (d.decision = "AUTO-APPROVED") <=> (s >= 750)
            /\ (d.decision = "MANUAL REVIEW" /\ d.color = "yellow") <=> (650 <= s /\ s < 750)
            /\ (d.decision = "MANUAL REVIEW" /\ d.color = "orange") <=> (550 <= s /\ s < 650)
            /\ (d.decision = "REJECTED") <=> (s < 550)
            /\ d.decision \in {"AUTO-APPROVED", "MANUAL REVIEW", "REJECTED"}
            /\ d.decision = "MANUAL REVIEW" => d.color \in {"yellow", "orange"}

\* C2 witness: get_decision was applied to the boundary score 650 and
\* answered with the good-profile review band.
C2_Witness ==
    /\ pc = "returned"
    /\ call.fn = "get_decision"
    /\ call.arg = 650
    /\ call.ret.decision = "MANUAL REVIEW"
    /\ call.ret.color = "yellow"

\* C3: for every probability p in [0,1], cibil_score(p) is an integer in
\* 300..900, with p = 0 giving 900 and p = 1 giving 300.
C3_ScoreInRange ==
    (pc = "returned" /\ call.fn = "cibil_score" /\ call.arg \in UnitProbNums) =>
        /\ call.ret \in 300..900
        /\ call.arg = 0 => call.ret = 900
        /\ call.arg = PDen => call.ret = 300

\* C3 witness: cibil_score(1) returned 300 after cibil_score(0) returned 900.
C3_Witness ==
    /\ pc = "returned"
    /\ call.fn = "cibil_score"
    /\ call.arg = PDen
    /\ call.ret = 300
    /\ prev.fn = "cibil_score"
    /\ prev.arg = 0
    /\ prev.ret = 900

\* C4: for two probabilities p1 < p2 in [0,1], cibil_score(p1) >= cibil_score(p2).
C4_Monotone ==
    (/\ pc = "returned"
     /\ call.fn = "cibil_score"
     /\ prev.fn = "cibil_score"
     /\ call.arg \in UnitProbNums
     /\ prev.arg \in UnitProbNums) =>
        /\ prev.arg < call.arg => prev.ret >= call.ret
        /\ call.arg < prev.arg => call.ret >= prev.ret

\* C4 witness: two successive cibil_score calls with p1 < p2 in [0,1], the
\* second score strictly lower.
C4_Witness ==
    /\ pc = "returned"
    /\ call.fn = "cibil_score"
    /\ prev.fn = "cibil_score"
    /\ call.arg \in UnitProbNums
    /\ prev.arg \in UnitProbNums
    /\ prev.arg < call.arg
    /\ prev.ret > call.ret

\* C14: the score mapper never returns a score for a probability below 0 or
\* above 1 (such a call is signalled as an invalid probability instead), so
\* every call that returned had its argument in [0, 1] and returned a score
\* in 300..900.
C14_InvalidProbabilityRejected ==
    IsScoreCall =>
        /\ call.arg \in UnitProbNums
        /\ call.ret \in 300..900

(***************************************************************************)
(* Fairness analyzer (pandas semantics over exact rationals)               *)
(*                                                                         *)
(* A float result is a rational [num, den] with den > 0; NaN is 0/0.       *)
(***************************************************************************)
Groups == 1..NumGroups                  \* group values a caller may name
protected_cols == <<"gender", "race">>
Labels == {0, 1}

NaN == [num |-> 0, den |-> 0]
Zero == [num |-> 0, den |-> 1]
IsNaN(r) == r.den = 0

\* float division a / b where b is non-zero or NaN
RatDiv(a, b) ==
    IF IsNaN(a) \/ IsNaN(b) THEN NaN
    ELSE [num |-> a.num * b.den, den |-> a.den * b.num]

\* float subtraction a - b
RatSub(a, b) ==
    IF IsNaN(a) \/ IsNaN(b) THEN NaN
    ELSE [num |-> a.num * b.den - b.num * a.den, den |-> a.den * b.den]

RECURSIVE SumOver(_, _)
SumOver(y, idx) ==
    IF idx = {} THEN 0
    ELSE LET i == CHOOSE j \in idx : TRUE
         IN  y[i] + SumOver(y, idx \ {i})

\* df[sensitive_col] == group: the rows the boolean mask selects
MaskEq(col, g) == {i \in 1..Len(data[col]) : data[col][i] = g}

\* mutation of SeriesMean: the mean is taken over all rows, the mask ignored
SeriesMeanAll(y, idx) ==
    IF Len(y) = 0 THEN NaN
    ELSE [num |-> SumOver(y, 1..Len(y)), den |-> Len(y)]

\* df.loc[mask, 'y_pred'].mean(): NaN for an empty selection
SeriesMean(y, idx) ==
    IF idx = {} THEN NaN
    ELSE [num |-> SumOver(y, idx), den |-> Cardinality(idx)]

\* mutation of calculate_disparate_impact: no guard for a zero denominator
\* (the float division then yields NaN or inf, neither of which is a number)
calculate_disparate_impact_noguard(y_pred, sensitive_col, privileged_group, unprivileged_group) ==
    LET sr_privileged == SeriesMean(y_pred, MaskEq(sensitive_col, privileged_group))
        sr_unprivileged == SeriesMean(y_pred, MaskEq(sensitive_col, unprivileged_group))
    IN  IF ~IsNaN(sr_privileged) /\ sr_privileged.num = 0 THEN NaN
        ELSE RatDiv(sr_unprivileged, sr_privileged)

\* FairnessAnalyzer.calculate_disparate_impact
calculate_disparate_impact(y_pred, sensitive_col, privileged_group, unprivileged_group) ==
    LET sr_privileged == SeriesMean(y_pred, MaskEq(sensitive_col, privileged_group))
        sr_unprivileged == SeriesMean(y_pred, MaskEq(sensitive_col, unprivileged_group))
    IN  IF ~IsNaN(sr_privileged) /\ sr_privileged.num = 0 THEN Zero
        ELSE RatDiv(sr_unprivileged, sr_privileged)

\* mutation of get_tpr: precision tp / (tp + fp) instead of recall
get_tpr_precision(indices, y_true, y_pred) ==
    IF indices = {} THEN Zero
    ELSE LET tp == Cardinality({i \in indices : y_true[i] = 1 /\ y_pred[i] = 1})
             fp == Cardinality({i \in indices : y_true[i] = 0 /\ y_pred[i] = 1})
         IN  IF tp + fp > 0 THEN [num |-> tp, den |-> tp + fp] ELSE Zero

\* get_tpr inside calculate_equal_opportunity_difference
get_tpr(indices, y_true, y_pred) ==
    IF indices = {} THEN Zero
    ELSE LET tp == Cardinality({i \in indices : y_true[i] = 1 /\ y_pred[i] = 1})
             fn == Cardinality({i \in indices : y_true[i] = 1 /\ y_pred[i] = 0})
         IN  IF tp + fn > 0 THEN [num |-> tp, den |-> tp + fn] ELSE Zero

\* FairnessAnalyzer.calculate_equal_opportunity_difference
calculate_equal_opportunity_difference(y_true, y_pred, sensitive_col, privileged_group, unprivileged_group) ==
    LET tpr_privileged == get_tpr(MaskEq(sensitive_col, privileged_group), y_true, y_pred)
        tpr_unprivileged == get_tpr(MaskEq(sensitive_col, unprivileged_group), y_true, y_pred)
    IN  RatSub(tpr_unprivileged, tpr_privileged)

\* Series.unique(): the distinct values in order of first appearance
RECURSIVE Unique(_)
Unique(seq) ==
    IF seq = <<>> THEN <<>>
    ELSE LET n == Len(seq)
             head == Unique(SubSeq(seq, 1, n - 1))
         IN  IF \E i \in 1..(n - 1) : seq[i] = seq[n] THEN head ELSE Append(head, seq[n])

CountOf(seq, g) == Cardinality({i \in 1..Len(seq) : seq[i] = g})

\* mutation of Mode: the first group that appears is taken as privileged
ModeFirst(seq) == seq[1]

\* Series.mode()[0]: mode() returns the most frequent values sorted
\* ascending, so [0] is the smallest of them
Mode(seq) ==
    LET vals == {seq[i] : i \in 1..Len(seq)}
        modes == {v \in vals : \A w \in vals : CountOf(seq, w) <= CountOf(seq, v)}
    IN  CHOOSE v \in modes : \A w \in modes : v <= w

\* a key that leaves the unprivileged group out
ReportKey_NoGroup(col, unpriv, privileged_group) == <<col, "_vs_", privileged_group>>

\* the dict key f"{col}_{unpriv}_vs_{privileged_group}"
ReportKey(col, unpriv, privileged_group) == <<col, "_", unpriv, "_vs_", privileged_group>>

\* report[key] = value: a dict keeps insertion order; an existing key is overwritten in place
DictSet(report, entry) ==
    IF \E i \in 1..Len(report) : report[i].key = entry.key
    THEN [i \in 1..Len(report) |-> IF report[i].key = entry.key THEN entry ELSE report[i]]
    ELSE Append(report, entry)

\* the inner loop of generate_report over unprivileged_groups[j..]
RECURSIVE ReportGroups(_, _, _, _, _, _, _)
ReportGroups(report, col, privileged_group, unprivileged_groups, j, y_true, y_pred) ==
    IF j > Len(unprivileged_groups) THEN report
    ELSE LET unpriv == unprivileged_groups[j]
             di == calculate_disparate_impact(y_pred, col, privileged_group, unpriv)
             eod == calculate_equal_opportunity_difference(y_true, y_pred, col, privileged_group, unpriv)
             entry == [key |-> ReportKey(col, unpriv, privileged_group),
                       col |-> col, unpriv |-> unpriv, priv |-> privileged_group,
                       di |-> di, eod |-> eod]
         IN  ReportGroups(DictSet(report, entry), col, privileged_group,
                          unprivileged_groups, j + 1, y_true, y_pred)

\* the outer loop of generate_report over protected_cols[k..]
RECURSIVE ReportCols(_, _, _, _)
ReportCols(report, k, y_true, y_pred) ==
    IF k > Len(protected_cols) THEN report
    ELSE LET col == protected_cols[k]
             groups == Unique(data[col])
         IN  IF Len(groups) < 2 THEN ReportCols(report, k + 1, y_true, y_pred)
             ELSE LET privileged_group == Mode(data[col])
                      unprivileged_groups == SelectSeq(groups, LAMBDA g : g # privileged_group)
                  IN  ReportCols(ReportGroups(report, col, privileged_group,
                                              unprivileged_groups, 1, y_true, y_pred),
                                 k + 1, y_true, y_pred)

\* FairnessAnalyzer.generate_report
generate_report(y_true, y_pred) == ReportCols(<<>>, 1, y_true, y_pred)

(***************************************************************************)
(* Fairness analyzer: the object and its method calls                      *)
(***************************************************************************)
\* the batches a FairnessAnalyzer is constructed with: the first protected
\* column takes every sequence of group values, the second is constant or alternates
Batches ==
    UNION {
        { [gender |-> g, race |-> r] :
            g \in [1..n -> Groups],
            r \in { [i \in 1..n |-> 1], [i \in 1..n |-> 1 + (i % 2)] } }
        : n \in 0..MaxBatch }

BatchLen == Len(data[protected_cols[1]])
LabelVectors == [1..BatchLen -> Labels]

\* FairnessAnalyzer.__init__
InitFair ==
    /\ pc = "idle"
    /\ call = None
    /\ prev = None
    /\ model = None
    /\ req = None
    /\ resp = None
    /\ modelCalls = <<>>
    /\ data \in Batches
    /\ fcall = None
    /\ ServiceOff
    /\ BureauOff

CallDisparateImpact ==
    /\ pc = "idle"
    /\ \E y_pred \in LabelVectors, i \in 1..Len(protected_cols), p \in Groups, u \in Groups :
         fcall' = [fn |-> "calculate_disparate_impact",
                   col |-> protected_cols[i], priv |-> p, unpriv |-> u,
                   y_true |-> <<>>, y_pred |-> y_pred,
                   ret |-> calculate_disparate_impact(y_pred, protected_cols[i], p, u)]
    /\ pc' = "returned"
    /\ UNCHANGED <<call, prev, model, req, resp, modelCalls, data, svcVars, bureauVars>>

CallEqualOpportunityDifference ==
    /\ pc = "idle"
    /\ \E y_true \in LabelVectors, y_pred \in LabelVectors,
          i \in 1..Len(protected_cols), p \in Groups, u \in Groups :
         fcall' = [fn |-> "calculate_equal_opportunity_difference",
                   col |-> protected_cols[i], priv |-> p, unpriv |-> u,
                   y_true |-> y_true, y_pred |-> y_pred,
                   ret |-> calculate_equal_opportunity_difference(
                               y_true, y_pred, protected_cols[i], p, u)]
    /\ pc' = "returned"
    /\ UNCHANGED <<call, prev, model, req, resp, modelCalls, data, svcVars, bureauVars>>

\* the keyword arguments a caller may add to generate_report: none, or a
\* privileged group of its choice
ReportKwargs == {<<>>} \cup {[privileged_group |-> p] : p \in Groups}

\* generate_report(self, y_true, y_pred) declares no parameter for a privileged
\* group: a call that passes one raises TypeError before the body runs
CallGenerateReport ==
    /\ pc = "idle"
    /\ \E y_true \in LabelVectors, y_pred \in LabelVectors, kwargs \in ReportKwargs :
         fcall' = [fn |-> "generate_report",
                   y_true |-> y_true, y_pred |-> y_pred, kwargs |-> kwargs,
                   raised |-> IF DOMAIN kwargs = {} THEN "none" ELSE "TypeError",
                   ret |-> IF DOMAIN kwargs = {} THEN generate_report(y_true, y_pred)
                           ELSE <<>>]
    /\ pc' = "returned"
    /\ UNCHANGED <<call, prev, model, req, resp, modelCalls, data, svcVars, bureauVars>>

\* the caller consumes the result
ReturnFair ==
    /\ pc = "returned"
    /\ pc' = "idle"
    /\ fcall' = None
    /\ UNCHANGED <<call, prev, model, req, resp, modelCalls, data, svcVars, bureauVars>>

NextFair ==
    \/ CallDisparateImpact
    \/ CallEqualOpportunityDifference
    \/ CallGenerateReport
    \/ ReturnFair

SpecFair == InitFair /\ [][NextFair]_vars

(***************************************************************************)
(* Fairness analyzer: properties                                           *)
(***************************************************************************)
\* rows of the call's sensitive column holding group g
RowsOf(g) == {i \in 1..BatchLen : data[fcall.col][i] = g}

\* rows of group g predicted favourable (1) in the call
SelectedOf(g) == {i \in RowsOf(g) : fcall.y_pred[i] = 1}

\* rows of group g whose true label is 1, and those of them predicted 1
PositivesOf(g) == {i \in RowsOf(g) : fcall.y_true[i] = 1}
TruePositivesOf(g) == {i \in PositivesOf(g) : fcall.y_pred[i] = 1}

IsDICall == pc = "returned" /\ fcall.fn = "calculate_disparate_impact"
IsEODCall == pc = "returned" /\ fcall.fn = "calculate_equal_opportunity_difference"
\* a generate_report call that returned a report
IsReportCall == pc = "returned" /\ fcall.fn = "generate_report" /\ fcall.raised = "none"

\* C7: whenever the privileged group has records and none of them is
\* predicted favourable (its selection rate is 0), calculate_disparate_impact
\* returns exactly 0, a number and not NaN, whatever the unprivileged group.
C7_ZeroPrivilegedRate ==
    (IsDICall /\ RowsOf(fcall.priv) # {} /\ SelectedOf(fcall.priv) = {}) =>
        /\ ~IsNaN(fcall.ret)
        /\ fcall.ret.num = 0

\* C7 witness: the privileged group's selection rate is 0, the unprivileged
\* group has no records at all, and 0 was returned.
C7_Witness ==
    /\ IsDICall
    /\ RowsOf(fcall.priv) # {}
    /\ SelectedOf(fcall.priv) = {}
    /\ RowsOf(fcall.unpriv) = {}
    /\ fcall.unpriv # fcall.priv
    /\ fcall.ret = Zero

\* C8: when the privileged group's selection rate is positive,
\* calculate_disparate_impact returns
\*   (selected(G) / rows(G)) / (selected(P) / rows(P)),
\* a value fixed by the rows of G and P alone; for a group G without records
\* the selection rate is undefined and so is the result (NaN).
C8_RatioOfSelectionRates ==
    (IsDICall /\ SelectedOf(fcall.priv) # {}) =>
        LET nG == Cardinality(RowsOf(fcall.unpriv))
            sG == Cardinality(SelectedOf(fcall.unpriv))
            nP == Cardinality(RowsOf(fcall.priv))
            sP == Cardinality(SelectedOf(fcall.priv))
        IN  IF nG = 0 THEN IsNaN(fcall.ret)
            ELSE /\ ~IsNaN(fcall.ret)
                 /\ fcall.ret.num * (nG * sP) = fcall.ret.den * (sG * nP)

\* C8 witness: two distinct groups with positive selection rates, the
\* unprivileged one selected half as often, and the ratio 1/2 was returned.
C8_Witness ==
    /\ IsDICall
    /\ SelectedOf(fcall.priv) # {}
    /\ SelectedOf(fcall.unpriv) # {}
    /\ fcall.unpriv # fcall.priv
    /\ ~IsNaN(fcall.ret)
    /\ 2 * fcall.ret.num = fcall.ret.den

\* the claimed true-positive rate of group g, as a rational: TP / (TP + FN)
\* over the rows of g with true label 1, and 0 when there are none
ClaimedTPR(g) ==
    IF PositivesOf(g) = {} THEN Zero
    ELSE [num |-> Cardinality(TruePositivesOf(g)), den |-> Cardinality(PositivesOf(g))]

\* C9: calculate_equal_opportunity_difference returns TPR(G) - TPR(P), with
\* TPR 0 for a group without positive-labelled records; the result is a
\* defined number in [-1, 1].
C9_EqualOpportunityDifference ==
    IsEODCall =>
        LET tG == ClaimedTPR(fcall.unpriv)
            tP == ClaimedTPR(fcall.priv)
            r == fcall.ret
        IN  /\ r.den > 0
            /\ r.num * (tG.den * tP.den) = r.den * (tG.num * tP.den - tP.num * tG.den)
            /\ 0 - r.den <= r.num
            /\ r.num <= r.den

\* C9 witness: the unprivileged group has records but none with true label
\* 1, the privileged group has a true positive, and the difference is -1.
C9_Witness ==
    /\ IsEODCall
    /\ RowsOf(fcall.unpriv) # {}
    /\ PositivesOf(fcall.unpriv) = {}
    /\ TruePositivesOf(fcall.priv) = PositivesOf(fcall.priv)
    /\ PositivesOf(fcall.priv) # {}
    /\ fcall.ret.num + fcall.ret.den = 0
    /\ fcall.ret.den > 0

\* number of rows of column col holding group g
GroupSize(col, g) == Cardinality({i \in 1..BatchLen : data[col][i] = g})

\* C10: in every entry of the report the privileged group has the maximal
\* record count of its column (no unprivileged group is larger), and it is
\* fixed by the batch: the smallest group value among those of maximal count.
C10_MajorityIsPrivileged ==
    IsReportCall =>
        \A k \in 1..Len(fcall.ret) :
            LET e == fcall.ret[k]
            IN  /\ \A g \in Groups : GroupSize(e.col, g) <= GroupSize(e.col, e.priv)
                /\ GroupSize(e.col, e.unpriv) <= GroupSize(e.col, e.priv)
                /\ \A g \in Groups :
                       GroupSize(e.col, g) = GroupSize(e.col, e.priv) => e.priv <= g

\* C10 witness: a report entry compares two groups that tie for the highest
\* record count of their column.
C10_Witness ==
    /\ IsReportCall
    /\ \E k \in 1..Len(fcall.ret) :
           LET e == fcall.ret[k]
           IN  /\ e.col = protected_cols[1]
               /\ GroupSize(e.col, e.unpriv) = GroupSize(e.col, e.priv)
               /\ e.unpriv # e.priv

\* the distinct group values of a column of the batch
ObservedGroups(col) == {data[col][i] : i \in 1..BatchLen}

\* positions of the report's entries for column col and unprivileged group g
EntriesOf(col, g) ==
    {k \in 1..Len(fcall.ret) : fcall.ret[k].col = col /\ fcall.ret[k].unpriv = g}

\* sum over protected_cols[k..] of (distinct groups - 1), columns with fewer
\* than two distinct groups counting 0
RECURSIVE PairCount(_)
PairCount(k) ==
    IF k > Len(protected_cols) THEN 0
    ELSE LET n == Cardinality(ObservedGroups(protected_cols[k]))
         IN  (IF n < 2 THEN 0 ELSE n - 1) + PairCount(k + 1)

C12_ExplicitPrivilegedGroup ==
    (pc = "returned" /\ fcall.fn = "generate_report" /\ DOMAIN fcall.kwargs # {}) =>
        /\ fcall.raised = "none"
        /\ \A k \in 1..Len(fcall.ret) :
               fcall.ret[k].priv = fcall.kwargs.privileged_group
        /\ \A c \in 1..Len(protected_cols) :
               \A g \in ObservedGroups(protected_cols[c]) \ {fcall.kwargs.privileged_group} :
                   EntriesOf(protected_cols[c], g) # {}

\* C13: a comparison in which the privileged or the unprivileged group has
\* fewer records than the minimum sample count (here the least count that
\* excludes anything, 2) is left out of the report or marked as resting on
\* insufficient data; it never appears as a plain pair of metrics.
C13_SmallGroupNotPlain ==
    IsReportCall =>
        \A k \in 1..Len(fcall.ret) :
            LET e == fcall.ret[k]
            IN  (GroupSize(e.col, e.unpriv) < 2 \/ GroupSize(e.col, e.priv) < 2) =>
                    "insufficient_sample" \in DOMAIN e

(***************************************************************************)
(* REST API and dashboard: feature records and the risk model              *)
(***************************************************************************)
\* flask_api.FEATURE_NAMES (order matters: the training order)
FEATURE_NAMES ==
    << "checking_status", "duration", "credit_history", "purpose",
       "credit_amount", "savings_status", "employment", "installment_commitment",
       "personal_status", "other_parties", "residence_since", "property_magnitude",
       "age", "other_payment_plans", "housing", "existing_credits",
       "job", "num_dependents", "own_telephone", "foreign_worker" >>

\* app.ALL_FEATURES
ALL_FEATURES ==
    << "checking_status", "duration", "credit_history", "purpose", "credit_amount",
       "savings_status", "employment", "installment_commitment", "personal_status",
       "other_parties", "residence_since", "property_magnitude", "age",
       "other_payment_plans", "housing", "existing_credits", "job",
       "num_dependents", "own_telephone", "foreign_worker" >>

\* the order in which tab_sim fills sim_feats: sim_sections, section by section
SimOrder ==
    << "checking_status", "savings_status", "credit_history", "installment_commitment",
       "duration", "credit_amount", "purpose", "existing_credits", "other_payment_plans",
       "other_parties", "property_magnitude",
       "age", "employment", "personal_status", "housing", "job", "residence_since",
       "num_dependents", "own_telephone", "foreign_worker" >>

FeatureSet == {FEATURE_NAMES[i] : i \in 1..Len(FEATURE_NAMES)}

Values == 0..MaxVal

\* a complete record: every feature 0 except the first and the last declared one
FullRecord(v1, v2) ==
    [f \in FeatureSet |->
        IF f = "checking_status" THEN v1
        ELSE IF f = "foreign_worker" THEN v2
        ELSE 0]

FullRecords == {FullRecord(v1, v2) : v1 \in Values, v2 \in Values}

\* keys a client may leave out, and a key that is no declared feature
DropKeys == {"checking_status", "purpose", "foreign_worker"}
ExtraKey == "applicant_note"

\* the JSON objects a client sends as a feature record
ClientRecords ==
    { [k \in (FeatureSet \ dropped) \cup extra |-> IF k \in FeatureSet THEN r[k] ELSE 0] :
        r \in FullRecords, dropped \in SUBSET DropKeys, extra \in {{}, {ExtraKey}} }

EmptyDict == [k \in {} |-> 0]

\* the loaded artifact: an additive scorer over the columns in training order,
\* P(default) = (bias + sum_i coef[i] * x[i]) / PDen; the parameters keep the
\* value inside [0,1] for every record a client can send
Models ==
    { [bias |-> b,
       coef |-> [i \in 1..Len(FEATURE_NAMES) |->
                    IF i = 1 THEN c1 ELSE IF i = Len(FEATURE_NAMES) THEN PDen \div 8 ELSE 0]] :
        b \in {PDen \div 4 + 1, PDen \div 2},
        c1 \in {0 - (PDen \div (4 * (MaxVal + 1))), 0} }

RECURSIVE DotFrom(_, _, _)
DotFrom(coef, idf, i) ==
    IF i > Len(idf) THEN 0
    ELSE coef[i] * idf[i].value + DotFrom(coef, idf, i + 1)

\* float(model.predict_proba(idf)[0][1]) as a numerator over PDen; the
\* estimator reads the columns by position
predict_proba(m, idf) == m.bias + DotFrom(m.coef, idf, 1)

\* pd.DataFrame({f: [d[f]] for f in names}): one row, columns in the order of names
DataFrame(d, names) == [i \in 1..Len(names) |-> [name |-> names[i], value |-> d[names[i]]]]

\* explainer.expected_value: the base value the contributions add up from
expected_value(m) == m.bias

\* explainer(idf).values[0]: additive per-column contributions (numerators over PDen)
shap_values_of(m, idf) == [i \in 1..Len(idf) |-> m.coef[i] * idf[i].value]

\* Python round(a / b, 0) for b > 0: round half to even
RoundHalfEven(a, b) ==
    LET q == a \div b
        r2 == 2 * (a - q * b)
    IN  IF r2 < b THEN q
        ELSE IF r2 > b THEN q + 1
        ELSE IF q % 2 = 0 THEN q ELSE q + 1

\* round(prob, 4) in units of 1e-4
Round4(n) == RoundHalfEven(n * 10000, PDen)

(***************************************************************************)
(* REST API: /api/predict                                                  *)
(***************************************************************************)
\* [f for f in FEATURE_NAMES if f not in data]
MissingFeatures(d) == SelectSeq(FEATURE_NAMES, LAMBDA f : f \notin DOMAIN d)

\* sorted(items, key=abs(value), reverse=True): stable, descending
RECURSIVE InsertByAbs(_, _, _)
InsertByAbs(sorted, x, i) ==
    IF i > Len(sorted) THEN Append(sorted, x)
    ELSE IF Abs(sorted[i].value) < Abs(x.value)
         THEN SubSeq(sorted, 1, i - 1) \o <<x>> \o SubSeq(sorted, i, Len(sorted))
         ELSE InsertByAbs(sorted, x, i + 1)

RECURSIVE SortByAbsDesc(_)
SortByAbsDesc(items) ==
    IF items = <<>> THEN <<>>
    ELSE InsertByAbs(SortByAbsDesc(SubSeq(items, 1, Len(items) - 1)), items[Len(items)], 1)

Take(seq, n) == SubSeq(seq, 1, IF Len(seq) < n THEN Len(seq) ELSE n)

Impact(v) == IF v > 0 THEN "risk_increasing" ELSE "risk_decreasing"

RiskLevel(score) == IF score >= 750 THEN "LOW" ELSE IF score >= 600 THEN "MEDIUM" ELSE "HIGH"

\* mutation of predict: no check that all features are present; the missing
\* column surfaces as the KeyError of the first lookup that fails
predict_unvalidated(hasJson, d) ==
    IF ~hasJson \/ DOMAIN d = {}
    THEN [resp |-> [status |-> 400, error |-> "Request body must be JSON with 20 features"],
          calls |-> <<>>]
    ELSE IF MissingFeatures(d) # <<>>
    THEN [resp |-> [status |-> 500, error |-> "KeyError", key |-> MissingFeatures(d)[1]],
          calls |-> <<>>]
    ELSE LET idf == DataFrame(d, FEATURE_NAMES)
             prob == predict_proba(model, idf)
             score == cibil_score(prob)
         IN  [resp |-> [status |-> 200, success |-> TRUE, cibil_score |-> score],
              calls |-> <<idf>>]

\* flask_api.predict: the response and the rows handed to the model
predict(hasJson, d) ==
    IF ~hasJson \/ DOMAIN d = {}
    THEN [resp |-> [status |-> 400, error |-> "Request body must be JSON with 20 features"],
          calls |-> <<>>]
    ELSE IF MissingFeatures(d) # <<>>
    THEN [resp |-> [status |-> 400, error |-> "Missing features",
                    missing |-> MissingFeatures(d), required |-> FEATURE_NAMES],
          calls |-> <<>>]
    ELSE LET idf == DataFrame(d, FEATURE_NAMES)
             prob == predict_proba(model, idf)
             score == cibil_score(prob)
             decision == get_decision(score)
             sv == shap_values_of(model, idf)
             shap_items == [i \in 1..Len(FEATURE_NAMES) |->
                               [feature |-> FEATURE_NAMES[i], value |-> sv[i], impact |-> Impact(sv[i])]]
             top_factors == Take(SortByAbsDesc(shap_items), 5)
         IN  [resp |-> [status |-> 200,
                        success |-> TRUE,
                        default_probability |-> Round4(prob),
                        cibil_score |-> score,
                        grade |-> decision.decision,
                        reason |-> decision.reason,
                        risk_level |-> RiskLevel(score),
                        shap_explanation |-> shap_items,
                        top_5_factors |-> [i \in 1..Len(top_factors) |->
                                              [feature |-> top_factors[i].feature,
                                               impact |-> top_factors[i].value,
                                               direction |-> top_factors[i].impact]],
                        input_features |-> d],
              calls |-> <<idf>>]

\* POST /api/predict
HandlePredict ==
    /\ pc = "idle"
    /\ \E hasJson \in BOOLEAN, d \in ClientRecords \cup {EmptyDict} :
         /\ (~hasJson => d = EmptyDict)
         /\ req' = [endpoint |-> "/api/predict", hasJson |-> hasJson, json |-> d]
         /\ resp' = predict(hasJson, d).resp
         /\ modelCalls' = predict(hasJson, d).calls
    /\ pc' = "returned"
    /\ UNCHANGED <<call, prev, model, data, fcall, svcVars, bureauVars>>

(***************************************************************************)
(* REST API: /api/pan-check                                                *)
(*                                                                         *)
(* A Python str is the sequence of its characters.                         *)
(***************************************************************************)
UpperAZ ==
    {"A", "B", "C", "D", "E", "F", "G", "H", "I", "J", "K", "L", "M",
     "N", "O", "P", "Q", "R", "S", "T", "U", "V", "W", "X", "Y", "Z"}
Digits == {"0", "1", "2", "3", "4", "5", "6", "7", "8", "9"}
Whitespace == {" ", "\t", "\n"}

\* the lower-case letters the modelled inputs use, with their upper-case forms
ToUpper == [a |-> "A", b |-> "B", c |-> "C", d |-> "D", e |-> "E", f |-> "F"]

\* str.upper()
upper(s) == [i \in 1..Len(s) |-> IF s[i] \in DOMAIN ToUpper THEN ToUpper[s[i]] ELSE s[i]]

\* str.strip(): leading and trailing whitespace removed
RECURSIVE lstrip(_)
lstrip(s) == IF s # <<>> /\ s[1] \in Whitespace THEN lstrip(Tail(s)) ELSE s
RECURSIVE rstrip(_)
rstrip(s) ==
    IF s # <<>> /\ s[Len(s)] \in Whitespace THEN rstrip(SubSeq(s, 1, Len(s) - 1)) ELSE s
strip(s) == rstrip(lstrip(s))

\* mutation of PanMatches: only the length is compared
PanMatches_length(pan) == Len(pan) = 10
\* re.match(r'^[A-Z]{5}[0-9]{4}[A-Z]{1}$', pan); '$' also matches just before
\* a newline that ends the string
PanMatches(pan) ==
    /\ Len(pan) = 10 \/ (Len(pan) = 11 /\ pan[11] = "\n")
    /\ \A i \in 1..5 : pan[i] \in UpperAZ
    /\ \A i \in 6..9 : pan[i] \in Digits
    /\ pan[10] \in UpperAZ

\* values a client may send under 'pan': strings, and JSON values that are no string
PanValues ==
    { [type |-> "str", s |-> <<"A", "B", "C", "D", "E", "1", "2", "3", "4", "F">>],
      [type |-> "str", s |-> <<" ", "a", "b", "c", "d", "e", "1", "2", "3", "5", "f", "\n">>],
      [type |-> "str", s |-> <<"A", "B", "C", "D", "E", "1", "2", "3", "4", "5">>],
      [type |-> "str", s |-> <<"A", "B", "C", "D", "1", "2", "3", "4", "F">>],
      [type |-> "str", s |-> <<>>],
      [type |-> "int", s |-> <<>>],
      [type |-> "null", s |-> <<>>] }

\* values a client may send under 'age': a number, a numeric string, a string
\* that is no number, null
AgeValues ==
    {[type |-> t, value |-> v] : t \in {"int", "numeric_str"}, v \in Values}
    \cup {[type |-> "str", value |-> 0], [type |-> "null", value |-> 0]}

\* JSON bodies of /api/pan-check
PanBodies ==
    {[hasJson |-> FALSE, hasPan |-> FALSE, hasAge |-> FALSE,
      pan |-> [type |-> "null", s |-> <<>>], age |-> [type |-> "null", value |-> 0]]}
    \cup {[hasJson |-> TRUE, hasPan |-> FALSE, hasAge |-> ha,
           pan |-> [type |-> "null", s |-> <<>>], age |-> [type |-> "int", value |-> 0]] :
            ha \in BOOLEAN}
    \cup {[hasJson |-> TRUE, hasPan |-> TRUE, hasAge |-> FALSE,
           pan |-> p, age |-> [type |-> "null", value |-> 0]] : p \in PanValues}
    \cup {[hasJson |-> TRUE, hasPan |-> TRUE, hasAge |-> TRUE, pan |-> p, age |-> a] :
            p \in PanValues, a \in AgeValues}

\* the digits of a PAN, summed: what the mock bureau derives a profile from
RECURSIVE DigitSum(_)
DigitSum(s) ==
    IF s = <<>> THEN 0
    ELSE (IF s[1] \in {"1", "3", "5", "7", "9"} THEN 1 ELSE 0) + DigitSum(Tail(s))

\* PANApiClient._mock_profile: every field is drawn from a generator created
\* in the call and seeded by the PAN alone
mock_profile(pan) ==
    [pan |-> pan, name |-> "mock name", date_of_birth |-> "mock dob",
     pan_verified |-> TRUE, source |-> "mock", error |-> "None",
     feats |-> FullRecord(DigitSum(pan) % (MaxVal + 1), Len(pan) % (MaxVal + 1)),
     active_loans |-> DigitSum(pan) % 6, credit_utilization |-> 1 + (Len(pan) % 9),
     monthly_income |-> 0, foir |-> 0, perfios_risk_band |-> ""]

\* mutation of get_credit_profile: the PAN is looked up as it was passed
get_credit_profile_raw(pan) == mock_profile(pan)
\* PANApiClient.get_credit_profile on the mock provider
get_credit_profile(pan) == mock_profile(strip(upper(pan)))

\* mutation of ModelInputKeys: two neighbouring keys change places
ModelInputKeys_swapped ==
    << "duration", "checking_status", "credit_history", "purpose",
       "credit_amount", "savings_status", "employment", "installment_commitment",
       "personal_status", "other_parties", "residence_since", "property_magnitude",
       "age", "other_payment_plans", "housing", "existing_credits",
       "job", "num_dependents", "own_telephone", "foreign_worker" >>
\* the keys of the dict literal that to_model_input returns, in its order
ModelInputKeys ==
    << "checking_status", "duration", "credit_history", "purpose",
       "credit_amount", "savings_status", "employment", "installment_commitment",
       "personal_status", "other_parties", "residence_since", "property_magnitude",
       "age", "other_payment_plans", "housing", "existing_credits",
       "job", "num_dependents", "own_telephone", "foreign_worker" >>

\* CreditProfile.to_model_input: the values under those keys
to_model_input(profile) ==
    [k \in {ModelInputKeys[i] : i \in 1..Len(ModelInputKeys)} |-> profile.feats[k]]

(***************************************************************************)
(* Credit-bureau client: construction, provider calls, the Perfios flow    *)
(***************************************************************************)
\* PANApiClient.PROVIDERS
PROVIDERS == <<"perfios", "setu", "karza", "cibil", "experian", "mock">>
ProviderSet == {PROVIDERS[i] : i \in 1..Len(PROVIDERS)}

\* provider names a caller may pass (one is unknown) and API keys (none, or a key)
ProviderArgs == ProviderSet \cup {"equifax"}
ApiKeys == {"", "key"}

\* mutation of InitProvider: the requested provider is kept without a key
InitProvider_keep(provider, api_key) == provider
\* PANApiClient.__init__: self.provider = provider if api_key else "mock"
InitProvider(provider, api_key) == IF api_key # "" THEN provider ELSE "mock"

\* PANApiClient(provider, api_key): the instance, or the exception raised
PANApiClient(provider, api_key) ==
    IF provider \notin ProviderSet
    THEN [raised |-> "ValueError", provider |-> "", api_key |-> ""]
    ELSE [raised |-> "none", provider |-> InitProvider(provider, api_key),
          api_key |-> api_key]

\* the environment variables get_client_from_env reads, in priority order
EnvNames ==
    <<"PERFIOS_API_KEY", "SETU_CLIENT_ID", "KARZA_API_KEY", "CIBIL_API_KEY",
      "EXPERIAN_API_KEY">>
Envs == [{EnvNames[i] : i \in 1..Len(EnvNames)} -> ApiKeys]

\* get_client_from_env: the first provider whose variable is set, else mock
get_client_from_env(env) ==
    IF env["PERFIOS_API_KEY"] # "" THEN PANApiClient("perfios", env["PERFIOS_API_KEY"])
    ELSE IF env["SETU_CLIENT_ID"] # "" THEN PANApiClient("setu", env["SETU_CLIENT_ID"])
    ELSE IF env["KARZA_API_KEY"] # "" THEN PANApiClient("karza", env["KARZA_API_KEY"])
    ELSE IF env["CIBIL_API_KEY"] # "" THEN PANApiClient("cibil", env["CIBIL_API_KEY"])
    ELSE IF env["EXPERIAN_API_KEY"] # ""
    THEN PANApiClient("experian", env["EXPERIAN_API_KEY"])
    ELSE PANApiClient("mock", "")

\* JSON values of a response body
Num(n) == [t |-> "num", n |-> n, s |-> ""]
Str(s) == [t |-> "str", n |-> 0, s |-> s]
JNull == [t |-> "null", n |-> 0, s |-> ""]

\* how a provider request ends: a well-formed success; an error status code in
\* a well-formed body; connection error or timeout; HTTP error status; a body
\* that is no JSON; JSON of another shape than the client reads
Outcomes == {"ok", "body_error", "transport", "http_error", "not_json", "unexpected"}

\* the strings passed to get_credit_profile
LookupInputs ==
    { <<"A", "B", "C", "D", "E", "1", "2", "3", "5", "F">>,
      <<" ", "a", "b", "c", "d", "e", "1", "2", "3", "5", "f", "\n">>,
      <<"A", "B", "C", "D", "E", "1", "2", "3", "4", "F">> }

\* a call's result: the profile returned, or the exception that left the call
Returned(p) == [raised |-> "none", profile |-> p]
Raised(exc) == [raised |-> exc, profile |-> None]

\* p = self._mock_profile(pan); p.source = "<provider>_fallback"; p.error = ...
fallback_profile(pan, provider, error) ==
    [mock_profile(pan) EXCEPT !.source = provider \o "_fallback", !.error = error]

\* _call_setu, _call_karza, _call_cibil, _call_experian: one request inside
\* try ... except requests.exceptions.RequestException.  jsonErrCaught: the
\* installed requests raises a RequestException subclass from resp.json()
\* (2.27 and later) rather than a plain ValueError.
call_provider(provider, pan, outcome, jsonErrCaught) ==
    IF outcome \in {"transport", "http_error"} \/ (outcome = "not_json" /\ jsonErrCaught)
    THEN Returned(fallback_profile(pan, provider, "request error"))
    ELSE IF outcome = "not_json" THEN Raised("JSONDecodeError")
    ELSE IF outcome = "unexpected" THEN Raised("AttributeError")
    ELSE LET base == mock_profile(pan)
             ok == outcome = "ok"
         IN  CASE provider = "setu" ->
                    Returned([base EXCEPT
                        !.name = IF ok THEN "bureau name" ELSE "Unknown",
                        !.date_of_birth = IF ok THEN "bureau dob" ELSE "01-01-1990",
                        !.pan_verified = ok,
                        !.source = "setu",
                        !.error = IF ok THEN @ ELSE "PAN not found in NSDL database"])
               [] provider = "karza" ->
                    IF ok
                    THEN Returned([base EXCEPT !.name = "bureau name",
                                               !.date_of_birth = "bureau dob",
                                               !.source = "karza"])
                    ELSE Returned(fallback_profile(pan, "karza", "Karza API error"))
               [] provider = "cibil" ->
                    Returned([base EXCEPT
                        !.name = IF ok THEN "bureau name" ELSE "Unknown",
                        !.source = "cibil",
                        !.active_loans = IF ok THEN 2 ELSE 0,
                        !.feats = [@ EXCEPT !["credit_history"] = IF ok THEN 4 ELSE 0]])
               [] OTHER ->
                    Returned([base EXCEPT
                        !.name = IF ok THEN "bureau name" ELSE "Unknown",
                        !.source = "experian"])

\* the locals of _call_perfios that bank-statement analysis fills
NoBsa ==
    [monthly_income |-> 0, foir |-> 0, risk_band |-> Str(""), active_loans |-> 0,
     credit_util |-> 0]

\* the analytics object of a COMPLETED result
GoodAnalytics ==
    [monthlyIncome |-> Num(3), foir |-> Num(60), riskBand |-> Str("LOW"),
     activeLoanCount |-> Num(2), creditUtilization |-> Num(1)]
AnalyticsSet ==
    { GoodAnalytics,
      [GoodAnalytics EXCEPT !.monthlyIncome = JNull],
      [GoodAnalytics EXCEPT !.foir = JNull],
      [GoodAnalytics EXCEPT !.activeLoanCount = JNull],
      [GoodAnalytics EXCEPT !.creditUtilization = JNull],
      [GoodAnalytics EXCEPT !.riskBand = JNull],
      [GoodAnalytics EXCEPT !.riskBand = Str("HIGH"), !.foir = Num(0)] }

\* the five assignments of the COMPLETED branch, in order; float() and int()
\* raise on a value that is no number, after the assignments before them
ReadAnalytics(loc, a) ==
    IF a.monthlyIncome.t # "num" THEN [loc |-> loc, raised |-> TRUE]
    ELSE LET l1 == [loc EXCEPT !.monthly_income = a.monthlyIncome.n]
         IN  IF a.foir.t # "num" THEN [loc |-> l1, raised |-> TRUE]
             ELSE LET l3 == [l1 EXCEPT !.foir = a.foir.n, !.risk_band = a.riskBand]
                  IN  IF a.activeLoanCount.t # "num" THEN [loc |-> l3, raised |-> TRUE]
                      ELSE LET l4 == [l3 EXCEPT !.active_loans = a.activeLoanCount.n]
                           IN  IF a.creditUtilization.t # "num"
                               THEN [loc |-> l4, raised |-> TRUE]
                               ELSE [loc |-> [l4 EXCEPT !.credit_util =
                                                            a.creditUtilization.n],
                                     raised |-> FALSE]

Min(a, b) == IF a < b THEN a ELSE b
Max(a, b) == IF a > b THEN a ELSE b

\* _call_perfios, "Build CreditProfile": risk_band.upper() is evaluated outside
\* every try block
perfios_build(pan, v, loc) ==
    IF loc.risk_band.t # "str" THEN Raised("AttributeError")
    ELSE LET base == mock_profile(pan)
             band == loc.risk_band.s
         IN  Returned([base EXCEPT
                 !.name = v.name,
                 !.date_of_birth = v.dob,
                 !.pan_verified = v.pan_verified,
                 !.source = "perfios",
                 !.monthly_income = loc.monthly_income,
                 !.foir = loc.foir,
                 !.perfios_risk_band = band,
                 !.active_loans = loc.active_loans,
                 !.credit_utilization = loc.credit_util,
                 !.error = IF v.pan_verified THEN @ ELSE "PAN not valid per Perfios/NSDL",
                 !.feats = [@ EXCEPT
                     !["installment_commitment"] =
                         IF loc.foir > 0 THEN Min(4, Max(1, IntTrunc(loc.foir, 25))) ELSE @,
                     !["credit_history"] =
                         CASE band = "LOW" -> 4
                           [] band = "MEDIUM" -> 2
                           [] band = "HIGH" -> 0
                           [] OTHER -> @]])

\* for _ in range(3)
MaxPolls == 3

\* no lookup in progress
NoLookup ==
    [input |-> <<>>, pan |-> <<>>, sent |-> <<>>, failed |-> "none", token |-> "",
     verify |-> None, job_id |-> "", loc |-> NoBsa, bsa |-> "not attempted",
     polls |-> 0, completedAt |-> 0, ret |-> None]

\* client = PANApiClient(provider, api_key)
NewClient ==
    /\ bureau.pc \in {"new", "ready"}
    /\ \E provider \in ProviderArgs, api_key \in ApiKeys :
         LET c == PANApiClient(provider, api_key)
         IN  bureau' = [bureau EXCEPT
                 !.ctor = [provider |-> provider, api_key |-> api_key, raised |-> c.raised],
                 !.client = IF c.raised = "none" THEN c ELSE None,
                 !.pc = IF c.raised = "none" THEN "ready" ELSE "new"]
    /\ UNCHANGED <<libVars, svcVars, bureauCalls>>

\* client = get_client_from_env()
GetClientFromEnv ==
    /\ bureau.pc \in {"new", "ready"}
    /\ \E env \in Envs :
         LET c == get_client_from_env(env)
         IN  bureau' = [bureau EXCEPT
                 !.ctor = [provider |-> c.provider, api_key |-> c.api_key,
                           raised |-> c.raised],
                 !.client = c,
                 !.pc = "ready"]
    /\ UNCHANGED <<libVars, svcVars, bureauCalls>>

\* client.get_credit_profile(input): normalisation and dispatch; the mock
\* provider answers at once
GetCreditProfile ==
    /\ bureau.pc = "ready"
    /\ \E input \in LookupInputs :
         LET c == bureau.client
             pan == strip(upper(input))
         IN  bureau' =
               IF c.provider = "mock"
               THEN [bureau EXCEPT
                        !.pc = "done",
                        !.lookup = [NoLookup EXCEPT
                            !.input = input, !.pan = pan,
                            !.ret = Returned(get_credit_profile(input))],
                        !.seen = @ \cup {[input |-> input, api_key |-> c.api_key,
                                          profile |-> get_credit_profile(input)]}]
               ELSE [bureau EXCEPT
                        !.pc = IF c.provider = "perfios" THEN "token" ELSE "call",
                        !.lookup = [NoLookup EXCEPT !.input = input, !.pan = pan]]
    /\ UNCHANGED <<libVars, svcVars, bureauCalls>>

\* _call_setu, _call_karza, _call_cibil, _call_experian
ProviderCall ==
    /\ bureau.pc = "call"
    /\ \E outcome \in Outcomes, jsonErrCaught \in BOOLEAN :
         bureau' = [bureau EXCEPT
             !.pc = "done",
             !.lookup.sent = Append(@, bureau.client.provider),
             !.lookup.failed = IF outcome = "ok" THEN "none" ELSE outcome,
             !.lookup.ret = call_provider(bureau.client.provider, bureau.lookup.pan,
                                          outcome, jsonErrCaught)]
    /\ UNCHANGED <<libVars, svcVars, bureauCalls>>

\* _call_perfios, step 1: OAuth2 token, inside try ... except Exception
PerfiosToken ==
    /\ bureau.pc = "token"
    /\ \E outcome \in Outcomes :
         bureau' =
           IF outcome \in {"ok", "body_error"}
           THEN [bureau EXCEPT
                    !.pc = "verify",
                    !.lookup.sent = Append(@, "token"),
                    !.lookup.failed = IF outcome = "ok" THEN "none" ELSE outcome,
                    !.lookup.token = IF outcome = "ok" THEN "access token" ELSE ""]
           ELSE [bureau EXCEPT
                    !.pc = "done",
                    !.lookup.sent = Append(@, "token"),
                    !.lookup.failed = outcome,
                    !.lookup.ret = Returned(fallback_profile(bureau.lookup.pan, "perfios",
                                                             "Perfios token error"))]
    /\ UNCHANGED <<libVars, svcVars, bureauCalls>>

\* _call_perfios, step 2: PAN verification, inside try ... except Exception
PerfiosVerify ==
    /\ bureau.pc = "verify"
    /\ \E outcome \in Outcomes :
         bureau' =
           IF outcome \in {"ok", "body_error"}
           THEN [bureau EXCEPT
                    !.pc = "submit",
                    !.lookup.sent = Append(@, "verify"),
                    !.lookup.failed = IF outcome = "ok" THEN @ ELSE outcome,
                    !.lookup.verify =
                        IF outcome = "ok"
                        THEN [name |-> "bureau name", dob |-> "bureau dob",
                              pan_verified |-> TRUE]
                        ELSE [name |-> "Unknown", dob |-> "01-01-1990",
                              pan_verified |-> FALSE]]
           ELSE [bureau EXCEPT
                    !.pc = "done",
                    !.lookup.sent = Append(@, "verify"),
                    !.lookup.failed = outcome,
                    !.lookup.ret = Returned(fallback_profile(bureau.lookup.pan, "perfios",
                                                             "Perfios PAN verify error"))]
    /\ UNCHANGED <<libVars, svcVars, bureauCalls>>

\* _call_perfios, step 3: the BSA job is submitted; any exception ends the
\* optional part
PerfiosSubmit ==
    /\ bureau.pc = "submit"
    /\ \E outcome \in Outcomes :
         bureau' = [bureau EXCEPT
             !.pc = IF outcome = "ok" THEN "poll" ELSE "build",
             !.lookup.sent = Append(@, "submit"),
             !.lookup.job_id = IF outcome = "ok" THEN "job" ELSE "",
             !.lookup.bsa = IF outcome = "ok" THEN "submitted"
                            ELSE IF outcome = "body_error" THEN "no job"
                            ELSE "failed"]
    /\ UNCHANGED <<libVars, svcVars, bureauCalls>>

\* _call_perfios, step 4: one pass of the polling loop
PerfiosPoll ==
    /\ bureau.pc = "poll"
    /\ bureau.lookup.polls < MaxPolls
    /\ \/ \E outcome \in {"pending", "transport", "not_json", "unexpected"} :
            bureau' = [bureau EXCEPT
                !.pc = IF outcome = "pending" /\ bureau.lookup.polls + 1 < MaxPolls
                       THEN "poll" ELSE "build",
                !.lookup.sent = Append(@, "poll"),
                !.lookup.polls = @ + 1,
                !.lookup.bsa = IF outcome = "pending" THEN "pending" ELSE "failed"]
       \/ \E a \in AnalyticsSet :
            LET r == ReadAnalytics(bureau.lookup.loc, a)
            IN  bureau' = [bureau EXCEPT
                    !.pc = "build",
                    !.lookup.sent = Append(@, "poll"),
                    !.lookup.polls = @ + 1,
                    !.lookup.completedAt = bureau.lookup.polls + 1,
                    !.lookup.loc = r.loc,
                    !.lookup.bsa = IF r.raised THEN "failed" ELSE "completed"]
    /\ UNCHANGED <<libVars, svcVars, bureauCalls>>

\* _call_perfios: the profile is built and returned
PerfiosBuild ==
    /\ bureau.pc = "build"
    /\ bureau' = [bureau EXCEPT
           !.pc = "done",
           !.lookup.ret = perfios_build(bureau.lookup.pan, bureau.lookup.verify,
                                        bureau.lookup.loc)]
    /\ UNCHANGED <<libVars, svcVars, bureauCalls>>

\* the caller has the profile, or the exception
ReturnProfile ==
    /\ bureau.pc = "done"
    /\ bureau' = [bureau EXCEPT !.pc = "ready", !.lookup = NoLookup]
    /\ UNCHANGED <<libVars, svcVars, bureauCalls>>

\* no client has been constructed
InitBureau ==
    /\ pc = "idle"
    /\ call = None
    /\ prev = None
    /\ model = None
    /\ req = None
    /\ resp = None
    /\ modelCalls = <<>>
    /\ data = None
    /\ fcall = None
    /\ ServiceOff
    /\ bureauCalls = None
    /\ bureau = [pc |-> "new", ctor |-> None, client |-> None, lookup |-> NoLookup,
                 seen |-> {}]

NextBureau ==
    \/ NewClient
    \/ GetClientFromEnv
    \/ GetCreditProfile
    \/ ProviderCall
    \/ PerfiosToken
    \/ PerfiosVerify
    \/ PerfiosSubmit
    \/ PerfiosPoll
    \/ PerfiosBuild
    \/ ReturnProfile

SpecBureau == InitBureau /\ [][NextBureau]_vars

\* flask_api.pan_check: the response, the rows handed to the model and the
\* PANs handed to the bureau client.  The
\* lookup data['pan'].upper() runs before the try block: its exception is not
\* caught by the handler.  clientFails / modelFails: the bureau client or the
\* model raises.
pan_check(body, clientFails, modelFails) ==
    IF ~body.hasJson \/ ~body.hasPan
    THEN [resp |-> [status |-> 400, error |-> "Request body must include 'pan' field"],
          calls |-> <<>>, lookups |-> <<>>]
    ELSE IF body.pan.type # "str"
    THEN [resp |-> [status |-> 500, unhandled |-> "AttributeError"], calls |-> <<>>, lookups |-> <<>>]
    ELSE LET pan == strip(upper(body.pan.s))
         IN  IF ~PanMatches(pan)
             THEN [resp |-> [status |-> 400, error |-> "Invalid PAN format", pan |-> pan],
                   calls |-> <<>>, lookups |-> <<>>]
             ELSE IF clientFails
             THEN [resp |-> [status |-> 500, error |-> "bureau client exception"],
                   calls |-> <<>>, lookups |-> <<pan>>]
             ELSE IF body.hasAge /\ body.age.type \in {"str", "null"}
             THEN [resp |-> [status |-> 500,
                             error |-> IF body.age.type = "str" THEN "ValueError"
                                       ELSE "TypeError"],
                   calls |-> <<>>, lookups |-> <<pan>>]
             ELSE LET profile == get_credit_profile(pan)
                      feats == IF body.hasAge
                               THEN [to_model_input(profile) EXCEPT !["age"] = body.age.value]
                               ELSE to_model_input(profile)
                      \* pd.DataFrame([feats]): the columns in the dict's key order;
                      \* feats['age'] = ... keeps the position of the key
                      idf == DataFrame(feats, ModelInputKeys)
                  IN  IF modelFails
                      THEN [resp |-> [status |-> 500, error |-> "model exception"],
                            calls |-> <<idf>>, lookups |-> <<pan>>]
                      ELSE
                      LET prob == predict_proba(model, idf)
                          score == cibil_score(prob)
                          decision == get_decision(score)
                          sv == shap_values_of(model, idf)
                          top_factors ==
                              SortByAbsDesc([i \in 1..Len(FEATURE_NAMES) |->
                                                [feature |-> FEATURE_NAMES[i], value |-> sv[i]]])
                          top5 == Take(top_factors, 5)
                      IN  [resp |-> [status |-> 200,
                                     success |-> TRUE,
                                     pan |-> pan,
                                     pan_verified |-> profile.pan_verified,
                                     bureau_source |-> profile.source,
                                     default_probability |-> Round4(prob),
                                     cibil_score |-> score,
                                     grade |-> decision.decision,
                                     reason |-> decision.reason,
                                     risk_level |-> RiskLevel(score),
                                     top_5_factors |-> [i \in 1..Len(top5) |->
                                         [feature |-> top5[i].feature,
                                          shap_value |-> Round4(top5[i].value),
                                          value |-> top5[i].value,
                                          direction |-> Impact(top5[i].value)]],
                                     all_features |-> feats,
                                     bureau_error |-> profile.error],
                           calls |-> <<idf>>, lookups |-> <<pan>>]

\* POST /api/pan-check
HandlePanCheck ==
    /\ pc = "idle"
    /\ \E body \in PanBodies, clientFails \in BOOLEAN, modelFails \in BOOLEAN :
         /\ req' = [endpoint |-> "/api/pan-check", hasJson |-> body.hasJson, json |-> body,
                    clientFails |-> clientFails, modelFails |-> modelFails]
         /\ resp' = pan_check(body, clientFails, modelFails).resp
         /\ modelCalls' = pan_check(body, clientFails, modelFails).calls
         /\ bureauCalls' = pan_check(body, clientFails, modelFails).lookups
    /\ pc' = "returned"
    /\ UNCHANGED <<call, prev, model, data, fcall, svcVars, bureau>>

(***************************************************************************)
(* REST API: /api/simulate, and the dashboard simulator                    *)
(***************************************************************************)
PyNone == 0 - 1     \* dict.get of an absent key; no feature value is negative

Get(d, k) == IF k \in DOMAIN d THEN d[k] ELSE PyNone
GetOr(d, k, default) == IF k \in DOMAIN d THEN d[k] ELSE default

\* mutation of ChangesMade: every declared feature is listed, changed or not
ChangesMadeAll(base_feats, mod_feats) ==
    [i \in 1..Len(FEATURE_NAMES) |->
        [feature |-> FEATURE_NAMES[i],
         from |-> Get(base_feats, FEATURE_NAMES[i]),
         to |-> Get(mod_feats, FEATURE_NAMES[i])]]

\* the loop building changes in simulate: an insertion-ordered dict, as the
\* sequence of its items
ChangesMade(base_feats, mod_feats) ==
    LET changed == SelectSeq(FEATURE_NAMES,
                             LAMBDA f : Get(base_feats, f) # Get(mod_feats, f))
    IN  [i \in 1..Len(changed) |->
            [feature |-> changed[i],
             from |-> Get(base_feats, changed[i]),
             to |-> Get(mod_feats, changed[i])]]

\* flask_api.simulate: the response and the rows handed to the model
simulate(body) ==
    IF ~body.hasJson \/ ~body.hasBaseline \/ ~body.hasModified
    THEN [resp |-> [status |-> 400, error |-> "Must provide 'baseline' and 'modified' feature sets"],
          calls |-> <<>>]
    ELSE LET base_feats == body.baseline
             mod_feats == body.modified
         IN  IF MissingFeatures(base_feats) # <<>>
             THEN [resp |-> [status |-> 500, error |-> "KeyError", key |-> MissingFeatures(base_feats)[1]],
                   calls |-> <<>>]
             ELSE IF MissingFeatures(mod_feats) # <<>>
             THEN [resp |-> [status |-> 500, error |-> "KeyError", key |-> MissingFeatures(mod_feats)[1]],
                   calls |-> <<>>]
             ELSE LET base_idf == DataFrame(base_feats, FEATURE_NAMES)
                      mod_idf == DataFrame(mod_feats, FEATURE_NAMES)
                      base_prob == predict_proba(model, base_idf)
                      mod_prob == predict_proba(model, mod_idf)
                      base_score == cibil_score(base_prob)
                      mod_score == cibil_score(mod_prob)
                  IN  [resp |-> [status |-> 200,
                                 success |-> TRUE,
                                 baseline |-> [score |-> base_score,
                                               probability |-> Round4(base_prob),
                                               decision |-> get_decision(base_score).decision],
                                 modified |-> [score |-> mod_score,
                                               probability |-> Round4(mod_prob),
                                               decision |-> get_decision(mod_score).decision],
                                 delta |-> [score_change |-> mod_score - base_score,
                                            probability_change |->
                                                RoundHalfEven((mod_prob - base_prob) * 10000, PDen),
                                            improved |-> mod_score > base_score],
                                 changes_made |-> ChangesMade(base_feats, mod_feats)],
                       calls |-> <<base_idf, mod_idf>>]

SimulateBodies ==
    {[hasJson |-> FALSE, hasBaseline |-> FALSE, hasModified |-> FALSE,
      baseline |-> EmptyDict, modified |-> EmptyDict]}
    \cup {[hasJson |-> TRUE, hasBaseline |-> hb, hasModified |-> hm,
           baseline |-> EmptyDict, modified |-> EmptyDict] :
            hb \in BOOLEAN, hm \in BOOLEAN}
    \cup {[hasJson |-> TRUE, hasBaseline |-> TRUE, hasModified |-> TRUE,
           baseline |-> a, modified |-> b] :
            a \in ClientRecords, b \in ClientRecords}

\* POST /api/simulate
HandleSimulate ==
    /\ pc = "idle"
    /\ \E body \in SimulateBodies :
         /\ req' = [endpoint |-> "/api/simulate", hasJson |-> body.hasJson, json |-> body]
         /\ resp' = simulate(body).resp
         /\ modelCalls' = simulate(body).calls
    /\ pc' = "returned"
    /\ UNCHANGED <<call, prev, model, data, fcall, svcVars, bureauVars>>

\* the dashboard's decision verdict for the simulated score
Verdict(sim_score) ==
    IF sim_score >= 750 THEN "AUTO-APPROVED"
    ELSE IF sim_score >= 600 THEN "MANUAL REVIEW"
    ELSE "REJECTED"

\* changed = {k: (base_feats.get(k,0), sim_feats[k]) for k in sim_feats if ...}
Changed(base_feats, sim_feats) ==
    LET ks == SelectSeq(SimOrder, LAMBDA k : sim_feats[k] # GetOr(base_feats, k, 0))
    IN  [i \in 1..Len(ks) |->
            [feature |-> ks[i], from |-> GetOr(base_feats, ks[i], 0), to |-> sim_feats[ks[i]]]]

\* one render of the dashboard's simulator tab: the baseline comes from the
\* last PAN check (fromPan) or from the default profile, the widgets give sim_feats
tab_sim(fromPan, base_feats, sim_feats) ==
    LET base_idf == DataFrame(base_feats, ALL_FEATURES)
        base_prob == predict_proba(model, base_idf)
        base_score == cibil(base_prob)
        sim_idf == DataFrame(sim_feats, ALL_FEATURES)
        sim_prob == predict_proba(model, sim_idf)
        sim_score == cibil(sim_prob)
        delta == sim_score - base_score
    IN  [resp |-> [status |-> 200,
                   base_score |-> base_score,
                   base_grade |-> grade(base_score).grade,
                   sim_score |-> sim_score,
                   sim_grade |-> grade(sim_score).grade,
                   delta |-> delta,
                   delta_prob |-> RoundHalfEven((sim_prob - base_prob) * 1000, PDen),
                   arrow |-> IF delta > 0 THEN "up" ELSE IF delta < 0 THEN "down" ELSE "flat",
                   verdict |-> Verdict(sim_score),
                   changed |-> Changed(base_feats, sim_feats)],
         calls |-> IF fromPan THEN <<sim_idf>> ELSE <<base_idf, sim_idf>>]

\* the records the simulator's widgets can hold: any value in any widget; here
\* the widgets of the first and last feature and of two features of different sections
WidgetRecords ==
    { [r EXCEPT !["duration"] = d, !["savings_status"] = s] :
        r \in FullRecords, d \in Values, s \in Values }

\* the user moves the simulator's widgets and the tab is rendered again
RenderTabSim ==
    /\ pc = "idle"
    /\ \E fromPan \in BOOLEAN, base_feats \in FullRecords, sim_feats \in WidgetRecords :
         /\ req' = [endpoint |-> "tab_sim", hasJson |-> FALSE,
                    json |-> [fromPan |-> fromPan, baseline |-> base_feats, modified |-> sim_feats]]
         /\ resp' = tab_sim(fromPan, base_feats, sim_feats).resp
         /\ modelCalls' = tab_sim(fromPan, base_feats, sim_feats).calls
    /\ pc' = "returned"
    /\ UNCHANGED <<call, prev, model, data, fcall, svcVars, bureauVars>>

\* app.validate_pan
validate_pan(pan) == PanMatches(pan)

\* the decision badge under the score of the dashboard's PAN check
Badge(score) ==
    IF score >= 750 THEN "AUTO-APPROVED"
    ELSE IF score >= 600 THEN "MANUAL REVIEW"
    ELSE "REJECTED"

\* what the user can type into the PAN field (at most 10 characters, one line)
TabPanInputs ==
    { <<"A", "B", "C", "D", "E", "1", "2", "3", "4", "F">>,
      <<"a", "b", "c", "d", "e", "1", "2", "3", "5", "f">>,
      <<" ", "a", "b", "c", "d", "e", "1", "2", "3", "4">>,
      <<"A", "B", "C", "D", "E", "1", "2", "3", "4", "5">>,
      <<"A", "B", "C", "D", "1", "2", "3", "4", "F">>,
      <<" ", " ">>,
      <<>> }

\* one render of the dashboard's PAN tab: the text of the PAN field, whether
\* the button was pressed, the manual entries (two of the widgets vary, the
\* others stay at their first option), and whether the bureau client raises
tab_pan(text, submitted, use_ov, ov_dur, ov_chk, clientFails) ==
    LET pan_input == strip(upper(text))
    IN  IF ~submitted
        THEN [resp |-> [status |-> 200, view |-> "form"], calls |-> <<>>, lookups |-> <<>>]
        ELSE IF pan_input = <<>>
        THEN [resp |-> [status |-> 200, view |-> "error",
                        error |-> "Please enter a PAN card number."],
              calls |-> <<>>, lookups |-> <<>>]
        ELSE IF ~validate_pan(pan_input)
        THEN [resp |-> [status |-> 200, view |-> "error", error |-> "Invalid PAN"],
              calls |-> <<>>, lookups |-> <<>>]
        ELSE IF clientFails
        THEN [resp |-> [status |-> 500, view |-> "exception"],
              calls |-> <<>>, lookups |-> <<pan_input>>]
        ELSE LET profile == get_credit_profile(pan_input)
                 feats == IF use_ov
                          THEN [to_model_input(profile) EXCEPT
                                   !["duration"] = ov_dur, !["credit_amount"] = 0,
                                   !["age"] = 0, !["checking_status"] = ov_chk,
                                   !["savings_status"] = 0, !["employment"] = 0]
                          ELSE to_model_input(profile)
                 idf == DataFrame(feats, ModelInputKeys)
                 prob == predict_proba(model, idf)
                 score == cibil(prob)
             IN  [resp |-> [status |-> 200, view |-> "result",
                            pan |-> pan_input,
                            score |-> score,
                            grade |-> grade(score).grade,
                            badge |-> Badge(score),
                            profile_source |-> profile.source,
                            pan_verified |-> profile.pan_verified],
                  calls |-> <<idf>>, lookups |-> <<pan_input>>]

\* the user presses "Check Credit Score", or the tab is rendered without it
RenderTabPan ==
    /\ pc = "idle"
    /\ \E text \in TabPanInputs, submitted \in BOOLEAN, use_ov \in BOOLEAN,
          ov_dur \in Values, ov_chk \in Values, clientFails \in BOOLEAN :
         /\ req' = [endpoint |-> "tab_pan", hasJson |-> FALSE,
                    json |-> [pan |-> text, submitted |-> submitted, use_ov |-> use_ov,
                              ov_dur |-> ov_dur, ov_chk |-> ov_chk],
                    clientFails |-> clientFails]
         /\ resp' = tab_pan(text, submitted, use_ov, ov_dur, ov_chk, clientFails).resp
         /\ modelCalls' = tab_pan(text, submitted, use_ov, ov_dur, ov_chk, clientFails).calls
         /\ bureauCalls' =
                tab_pan(text, submitted, use_ov, ov_dur, ov_chk, clientFails).lookups
    /\ pc' = "returned"
    /\ UNCHANGED <<call, prev, model, data, fcall, svcVars, bureau>>

\* the response is sent; the handler keeps nothing of the request
Respond ==
    /\ pc = "returned"
    /\ pc' = "idle"
    /\ req' = None
    /\ resp' = None
    /\ modelCalls' = <<>>
    /\ bureauCalls' = <<>>
    /\ UNCHANGED <<call, prev, model, data, fcall, svcVars, bureau>>

\* start-up: the model artifact is loaded once
Init ==
    /\ pc = "idle"
    /\ call = None
    /\ prev = None
    /\ model \in Models
    /\ req = None
    /\ resp = None
    /\ modelCalls = <<>>
    /\ data = None
    /\ fcall = None
    /\ ServiceOff
    /\ bureauCalls = <<>>
    /\ bureau = None

Next ==
    \/ HandlePredict
    \/ HandlePanCheck
    \/ HandleSimulate
    \/ RenderTabSim
    \/ RenderTabPan
    \/ Respond

Spec == Init /\ [][Next]_vars

(***************************************************************************)
(* REST API and dashboard: properties                                      *)
(***************************************************************************)
IsPredict == pc = "returned" /\ req.endpoint = "/api/predict"
IsSimulate == pc = "returned" /\ req.endpoint = "/api/simulate"
IsTabSim == pc = "returned" /\ req.endpoint = "tab_sim"

\* a simulate request that carries both records
HasBothRecords == req.json.hasJson /\ req.json.hasBaseline /\ req.json.hasModified

Complete(r) == FeatureSet \subseteq DOMAIN r

\* the score the scoring call /api/predict reports for record r
ScoreOf(r) == predict(TRUE, r).resp.cibil_score

\* a list of changes holds exactly the features on which A and B differ,
\* each once, with the pair (from = A[k], to = B[k])
ExactDiff(changes, A, B) ==
    /\ {changes[i].feature : i \in 1..Len(changes)} = {k \in FeatureSet : A[k] # B[k]}
    /\ Len(changes) = Cardinality({k \in FeatureSet : A[k] # B[k]})
    /\ \A i \in 1..Len(changes) :
           /\ changes[i].from = A[changes[i].feature]
           /\ changes[i].to = B[changes[i].feature]

\* C5: for records A (baseline) and B (modified) that both contain all 20
\* declared features, simulate succeeds, reports score(A) and score(B),
\* delta.score_change = score(B) - score(A), and changes_made holds exactly
\* the features with A[k] # B[k], each with (from = A[k], to = B[k]); the
\* dashboard simulator reports the same delta and the same set of changes.
C5_SimulateDelta ==
    /\ (IsSimulate /\ HasBothRecords
        /\ Complete(req.json.baseline) /\ Complete(req.json.modified)) =>
           LET A == req.json.baseline
               B == req.json.modified
           IN  /\ resp.status = 200
               /\ resp.baseline.score = ScoreOf(A)
               /\ resp.modified.score = ScoreOf(B)
               /\ resp.delta.score_change = ScoreOf(B) - ScoreOf(A)
               /\ resp.delta.score_change = resp.modified.score - resp.baseline.score
               /\ ExactDiff(resp.changes_made, A, B)
    /\ IsTabSim =>
           LET A == req.json.baseline
               B == req.json.modified
           IN  /\ resp.base_score = ScoreOf(A)
               /\ resp.sim_score = ScoreOf(B)
               /\ resp.delta = ScoreOf(B) - ScoreOf(A)
               /\ ExactDiff(resp.changed, A, B)

\* C5 witness: a simulation of two complete records that differ in two
\* features (the modified one also carries an undeclared key) lowered the score.
C5_Witness ==
    /\ IsSimulate
    /\ HasBothRecords
    /\ Complete(req.json.baseline)
    /\ Complete(req.json.modified)
    /\ ExtraKey \in DOMAIN req.json.modified
    /\ resp.status = 200
    /\ Len(resp.changes_made) = 2
    /\ resp.delta.score_change < 0

\* the records of the scoring request being handled
RequestRecords ==
    IF req.endpoint = "/api/predict" THEN {req.json}
    ELSE {req.json.baseline, req.json.modified}

\* a scoring request that passed the handler's check of the body itself
IsScoringRequest ==
    \/ IsPredict /\ req.hasJson /\ DOMAIN req.json # {}
    \/ IsSimulate /\ HasBothRecords

DeclaredIndex(f) == CHOOSE i \in 1..Len(FEATURE_NAMES) : FEATURE_NAMES[i] = f

\* a list of changes names its features in declaration order
InDeclarationOrder(changes) ==
    \A i, j \in 1..Len(changes) :
        i < j => DeclaredIndex(changes[i].feature) < DeclaredIndex(changes[j].feature)

\* C16: the changes reported by /api/simulate (changes_made) and by the
\* dashboard simulator (Changes Made) are exactly the features whose value
\* differs between baseline and modified record, listed in the order of the
\* declared feature list.
C16_ChangesInDeclarationOrder ==
    /\ (IsSimulate /\ resp.status = 200) =>
           /\ ExactDiff(resp.changes_made, req.json.baseline, req.json.modified)
           /\ InDeclarationOrder(resp.changes_made)
    /\ IsTabSim =>
           /\ ExactDiff(resp.changed, req.json.baseline, req.json.modified)
           /\ InDeclarationOrder(resp.changed)

IsPanCheck == pc = "returned" /\ req.endpoint = "/api/pan-check"

\* C19: every request to /api/predict, /api/pan-check or /api/simulate that
\* does not succeed is answered by the handler with a JSON error object and a
\* 4xx/5xx status; no request ends in an exception the handler did not catch.
C19_StructuredErrors ==
    (IsPredict \/ IsPanCheck \/ IsSimulate) =>
        \/ resp.status = 200
        \/ /\ resp.status \in 400..599
           /\ "error" \in DOMAIN resp
           /\ "unhandled" \notin DOMAIN resp

RECURSIVE SumValues(_, _)
SumValues(items, i) ==
    IF i > Len(items) THEN 0 ELSE items[i].value + SumValues(items, i + 1)

\* C20: a successful /api/predict returns one contribution per declared
\* feature, in declaration order, and the explainer's base value plus the sum
\* of the contributions equals the default probability returned with them
\* within 1e-6.
C20_AdditiveExplanation ==
    (IsPredict /\ resp.status = 200) =>
        /\ Len(resp.shap_explanation) = Len(FEATURE_NAMES)
        /\ \A i \in 1..Len(FEATURE_NAMES) : resp.shap_explanation[i].feature = FEATURE_NAMES[i]
        /\ LET total == expected_value(model) + SumValues(resp.shap_explanation, 1)
           IN  100 * Abs(total * 10000 - resp.default_probability * PDen) <= PDen

(***************************************************************************)
(* Model-loading services: the shared ModelExplainer (explainer.py), the   *)
(* lending API (main.py) and the start-up of the scoring API               *)
(* (flask_api.py).  Python's None is the string "None".                    *)
(***************************************************************************)
Threads == {"t1", "t2"}

\* the files the services read: the lending model, the background data of the
\* explainer, the scoring model
Files == {"MODEL_PATH", "data_path", "model.pkl"}

\* what a model file deserialises to: the training pipeline with a tree
\* classifier, the same pipeline around a classifier TreeExplainer rejects, a
\* pipeline without the three named steps, a bare tree model
ModelKinds == {"pipeline", "pipeline_nontree", "pipeline_other", "bare"}

Artifacts ==
    { [f \in Files |->
          IF f = "MODEL_PATH" THEN [state |-> s1, kind |-> k]
          ELSE IF f = "data_path" THEN [state |-> s2, kind |-> "csv"]
          ELSE [state |-> s3, kind |-> "bare"]] :
        s1 \in {"ok", "missing", "corrupt"}, k \in ModelKinds,
        s2 \in {"ok", "missing"}, s3 \in {"ok", "missing", "corrupt"} }

\* X_train.columns, and preprocessor.get_feature_names_out() (the last raw
\* column is categorical and one-hot encoded into two)
RawFeatureNames == <<"loan_amnt", "int_rate", "fico_range_low", "term">>
TransformedFeatureNames ==
    <<"num__loan_amnt", "num__int_rate", "num__fico_range_low",
      "cat__term_36", "cat__term_60">>

FeatureNamesOf(tag) == IF tag = "raw" THEN RawFeatureNames ELSE TransformedFeatureNames

\* rows of X_train (instance_idx selects one)
Instances == {<<1, 1, 1, 1>>, <<1, 1, 0, 0>>, <<0, 1, 1, 0>>}

\* preprocessor.transform(fe.transform(instance))
Transform(x) == SubSeq(x, 1, 3) \o <<x[4], 1 - x[4]>>

\* the contribution each column value gets from the explained classifier
Weights == <<2, 0 - 2, 1, 1, 0 - 1>>

\* explainer_shap.shap_values(X)[0]: one contribution per column of X
shap_values(X) == [i \in 1..Len(X) |-> Weights[i] * X[i]]

NoResult == [raised |-> "none", shap_values |-> <<>>, narrative |-> <<>>]
IdleThread == [pc |-> "idle", instance |-> <<>>, flag |-> "unset", ret |-> NoResult]

Raise(t, exc) == th' = [th EXCEPT ![t].pc = "done", ![t].ret.raised = exc]
Goto(t, label) == th' = [th EXCEPT ![t].pc = label]

\* a caller enters explain_local(instance_idx)
ElBegin(t) ==
    /\ th[t].pc = "idle"
    /\ \E x \in Instances : th' = [th EXCEPT ![t].pc = "el_check", ![t].instance = x]
    /\ UNCHANGED <<libVars, bureauVars, artifact, mx, loads, api, flask>>

\* if not self.explainer_shap: self.load_resources()  (no lock is taken)
ElCheck(t) ==
    /\ th[t].pc = "el_check"
    /\ Goto(t, IF mx.explainer_shap = "None" THEN "lr_exists" ELSE "el_shap")
    /\ UNCHANGED <<libVars, bureauVars, artifact, mx, loads, api, flask>>

\* load_resources: if not os.path.exists(self.model_path): raise FileNotFoundError
LrExists(t) ==
    /\ th[t].pc = "lr_exists"
    /\ IF artifact["MODEL_PATH"].state = "missing"
       THEN Raise(t, "FileNotFoundError")
       ELSE Goto(t, "lr_load")
    /\ UNCHANGED <<libVars, bureauVars, artifact, mx, loads, api, flask>>

\* self.model = joblib.load(self.model_path)
LrLoad(t) ==
    /\ th[t].pc = "lr_load"
    /\ loads.explainer < MaxLoads
    /\ loads' = [loads EXCEPT !.explainer = @ + 1]
    /\ IF artifact["MODEL_PATH"].state = "corrupt"
       THEN Raise(t, "UnpicklingError") /\ UNCHANGED mx
       ELSE /\ mx' = [mx EXCEPT !.model = artifact["MODEL_PATH"].kind]
            /\ Goto(t, "lr_data")
    /\ UNCHANGED <<libVars, bureauVars, artifact, api, flask>>

\* df = pd.read_csv(self.data_path); self.X_train = ...; self.feature_names = columns
LrData(t) ==
    /\ th[t].pc = "lr_data"
    /\ IF artifact["data_path"].state = "missing"
       THEN Raise(t, "FileNotFoundError") /\ UNCHANGED mx
       ELSE /\ mx' = [mx EXCEPT !.X_train = "raw", !.feature_names = "raw"]
            /\ Goto(t, "lr_shap")
    /\ UNCHANGED <<libVars, bureauVars, artifact, loads, api, flask>>

\* the choice of the SHAP explainer: a bare model gets TreeExplainer on the
\* model; a pipeline without the named steps raises KeyError inside the try
\* and gets KernelExplainer; the training pipeline goes on to its steps
LrShap(t) ==
    /\ th[t].pc = "lr_shap"
    /\ IF mx.model = "bare"
       THEN /\ mx' = [mx EXCEPT !.explainer_shap = "tree_raw"]
            /\ th' = [th EXCEPT ![t].pc = "lr_flag", ![t].flag = "False"]
       ELSE IF mx.model = "pipeline_other"
       THEN /\ mx' = [mx EXCEPT !.explainer_shap = "kernel"]
            /\ th' = [th EXCEPT ![t].pc = "lr_flag", ![t].flag = "False"]
       ELSE /\ mx' = [mx EXCEPT !.classifier = "set", !.preprocessor = "set", !.fe = "set"]
            /\ Goto(t, "lr_names")
    /\ UNCHANGED <<libVars, bureauVars, artifact, loads, api, flask>>

\* self.feature_names = self.preprocessor.get_feature_names_out()
LrNames(t) ==
    /\ th[t].pc = "lr_names"
    /\ mx' = [mx EXCEPT !.feature_names = "transformed"]
    /\ Goto(t, "lr_tree")
    /\ UNCHANGED <<libVars, bureauVars, artifact, loads, api, flask>>

\* self.explainer_shap = shap.TreeExplainer(self.classifier, ...); when the
\* constructor raises, the except branch installs KernelExplainer instead
LrTree(t) ==
    /\ th[t].pc = "lr_tree"
    /\ IF mx.model = "pipeline"
       THEN /\ mx' = [mx EXCEPT !.explainer_shap = "tree_transformed"]
            /\ th' = [th EXCEPT ![t].pc = "lr_flag", ![t].flag = "True"]
       ELSE /\ mx' = [mx EXCEPT !.explainer_shap = "kernel"]
            /\ th' = [th EXCEPT ![t].pc = "lr_flag", ![t].flag = "False"]
    /\ UNCHANGED <<libVars, bureauVars, artifact, loads, api, flask>>

\* self.use_transformed_data = True / False
LrFlag(t) ==
    /\ th[t].pc = "lr_flag"
    /\ mx' = [mx EXCEPT !.use_transformed_data = th[t].flag]
    /\ Goto(t, "lr_lime")
    /\ UNCHANGED <<libVars, bureauVars, artifact, loads, api, flask>>

\* self.explainer_lime = LimeTabularExplainer(training_data=self.X_train.values,
\* ...); load_resources returns.  The constructor fits a scaler on the raw
\* training rows and raises when it cannot (string-valued columns), which
\* leaves load_resources with everything before it assigned.
LrLime(t) ==
    /\ th[t].pc = "lr_lime"
    /\ \/ /\ mx' = [mx EXCEPT !.explainer_lime = "lime"]
          /\ Goto(t, "el_shap")
       \/ /\ Raise(t, "ValueError")
          /\ UNCHANGED mx
    /\ UNCHANGED <<libVars, bureauVars, artifact, loads, api, flask>>

\* the SHAP part of explain_local: getattr(self, 'use_transformed_data', False)
\* picks the transformed or the raw instance; a tree explainer built on
\* transformed data rejects a raw instance (the column counts differ)
ElShap(t) ==
    /\ th[t].pc = "el_shap"
    /\ LET X == IF mx.use_transformed_data = "True"
                THEN Transform(th[t].instance) ELSE th[t].instance
       IN  IF mx.explainer_shap = "tree_transformed" /\ mx.use_transformed_data # "True"
           THEN Raise(t, "ValueError")
           ELSE th' = [th EXCEPT ![t].pc = "el_lime", ![t].ret.shap_values = shap_values(X)]
    /\ UNCHANGED <<libVars, bureauVars, artifact, mx, loads, api, flask>>

\* the LIME part of explain_local, and its return
ElLime(t) ==
    /\ th[t].pc = "el_lime"
    /\ IF mx.explainer_lime = "None"
       THEN Raise(t, "AttributeError")
       ELSE Goto(t, "done")
    /\ UNCHANGED <<libVars, bureauVars, artifact, mx, loads, api, flask>>

\* the orders in which sort_values(by='importance', key=abs, ascending=False)
\* may leave the rows: descending |importance|; the default sort kind is
\* quicksort, which is not stable, so rows of equal |importance| may come out
\* in any order
SortedOrders(vals) ==
    {p \in [1..Len(vals) -> 1..Len(vals)] :
        /\ \A i, j \in 1..Len(vals) : p[i] = p[j] => i = j
        /\ \A i \in 1..(Len(vals) - 1) : Abs(vals[p[i]]) >= Abs(vals[p[i + 1]])}

\* generate_narrative(result of explain_local): the three first rows of the
\* sorted frame; a frame cannot be built from columns of different lengths
GenerateNarrative(t) ==
    /\ th[t].pc = "done"
    /\ th[t].ret.raised = "none"
    /\ LET vals == th[t].ret.shap_values
           names == FeatureNamesOf(mx.feature_names)
       IN  IF Len(names) # Len(vals)
           THEN Raise(t, "ValueError")
           ELSE \E p \in SortedOrders(vals) :
                    th' = [th EXCEPT
                             ![t].pc = "narrated",
                             ![t].ret.narrative =
                                 [i \in 1..(IF Len(vals) < 3 THEN Len(vals) ELSE 3) |->
                                     [feature |-> names[p[i]],
                                      position |-> p[i],
                                      importance |-> vals[p[i]],
                                      impact |-> IF vals[p[i]] > 0 THEN "increases"
                                                 ELSE "decreases"]]]
    /\ UNCHANGED <<libVars, bureauVars, artifact, mx, loads, api, flask>>

\* the caller takes the result (or the exception) and the thread is free again
Return(t) ==
    /\ th[t].pc \in {"done", "narrated"}
    /\ th' = [th EXCEPT ![t] = IdleThread]
    /\ UNCHANGED <<libVars, bureauVars, artifact, mx, loads, api, flask>>

\* main.health_check
ApiHealth ==
    /\ api' = [api EXCEPT !.health = [status |-> "ok",
                                      model_loaded |-> artifact["MODEL_PATH"].state # "missing"]]
    /\ UNCHANGED <<libVars, bureauVars, artifact, mx, th, loads, flask>>

\* main.predict: 503 when the file does not exist; otherwise the file is
\* deserialised for this request, and any exception becomes a 500 whose detail
\* is the exception text; a bare classifier cannot score the raw application
ApiPredict ==
    IF artifact["MODEL_PATH"].state = "missing"
    THEN /\ api' = [api EXCEPT !.predict = [status |-> 503, detail |-> "Model not loaded"]]
         /\ UNCHANGED <<libVars, bureauVars, artifact, mx, th, loads, flask>>
    ELSE /\ loads.api < MaxLoads
         /\ loads' = [loads EXCEPT !.api = @ + 1]
         /\ api' = [api EXCEPT !.predict =
                       IF artifact["MODEL_PATH"].state = "corrupt"
                       THEN [status |-> 500, detail |-> "UnpicklingError"]
                       ELSE IF artifact["MODEL_PATH"].kind = "bare"
                       THEN [status |-> 500, detail |-> "ValueError"]
                       ELSE [status |-> 200, detail |-> "scored"]]
         /\ UNCHANGED <<libVars, bureauVars, artifact, mx, th, flask>>

\* flask_api is imported: the module-level pickle.load runs outside any handler
FlaskStart ==
    /\ flask.state = "stopped"
    /\ IF artifact["model.pkl"].state = "ok"
       THEN /\ flask' = [flask EXCEPT !.state = "serving"]
            /\ loads' = [loads EXCEPT !.flask = @ + 1]
       ELSE /\ flask' = [flask EXCEPT
                           !.state = "crashed",
                           !.raised = IF artifact["model.pkl"].state = "missing"
                                      THEN "FileNotFoundError" ELSE "UnpicklingError"]
            /\ UNCHANGED loads
    /\ UNCHANGED <<libVars, bureauVars, artifact, mx, th, api>>

\* flask_api.health: served only by a process that got past start-up
FlaskHealth ==
    /\ flask.state = "serving"
    /\ flask' = [flask EXCEPT !.health = [status |-> "online", model |-> "loaded"]]
    /\ UNCHANGED <<libVars, bureauVars, artifact, mx, th, loads, api>>

\* ModelExplainer.__init__: every field None; two threads share the object
InitExplainer ==
    /\ pc = "idle"
    /\ call = None
    /\ prev = None
    /\ model = None
    /\ req = None
    /\ resp = None
    /\ modelCalls = <<>>
    /\ data = None
    /\ fcall = None
    /\ artifact \in {a \in Artifacts : a["model.pkl"].state = "ok"}
    /\ mx = [model |-> "None", explainer_shap |-> "None", explainer_lime |-> "None",
             X_train |-> "None", feature_names |-> "None",
             classifier |-> "unset", preprocessor |-> "unset", fe |-> "unset",
             use_transformed_data |-> "unset"]
    /\ th = [t \in Threads |-> IdleThread]
    /\ loads = [explainer |-> 0, api |-> 0, flask |-> 0]
    /\ api = None
    /\ flask = None
    /\ BureauOff

NextExplainer ==
    \E t \in Threads :
        \/ ElBegin(t)
        \/ ElCheck(t)
        \/ LrExists(t)
        \/ LrLoad(t)
        \/ LrData(t)
        \/ LrShap(t)
        \/ LrNames(t)
        \/ LrTree(t)
        \/ LrFlag(t)
        \/ LrLime(t)
        \/ ElShap(t)
        \/ ElLime(t)
        \/ GenerateNarrative(t)
        \/ Return(t)

SpecExplainer == InitExplainer /\ [][NextExplainer]_vars

\* the lending API before any request, the scoring API before its start
InitService ==
    /\ pc = "idle"
    /\ call = None
    /\ prev = None
    /\ model = None
    /\ req = None
    /\ resp = None
    /\ modelCalls = <<>>
    /\ data = None
    /\ fcall = None
    /\ artifact \in {a \in Artifacts : a["data_path"].state = "ok"}
    /\ mx = None
    /\ th = None
    /\ loads = [explainer |-> 0, api |-> 0, flask |-> 0]
    /\ api = [health |-> None, predict |-> None]
    /\ flask = [state |-> "stopped", raised |-> "none", health |-> None]
    /\ BureauOff

NextService ==
    \/ ApiHealth
    \/ ApiPredict
    \/ FlaskStart
    \/ FlaskHealth

SpecService == InitService /\ [][NextService]_vars

(***************************************************************************)
(* Model-loading services and rankings: properties                         *)
(***************************************************************************)
\* entry a ranks before entry b: larger |value|, or equal |value| and declared earlier
RanksBefore(a, b) ==
    \/ Abs(a.value) > Abs(b.value)
    \/ Abs(a.value) = Abs(b.value) /\ a.pos < b.pos

\* list (entries [pos, value]) is the top k of the contributions all, which
\* are given in declaration order: ranked by |value| descending, ties in
\* declaration order, and nothing left out ranks before a listed entry
TopRanked(list, all, k) ==
    /\ Len(list) = (IF Len(all) < k THEN Len(all) ELSE k)
    /\ \A i \in 1..Len(list) :
           list[i].pos \in 1..Len(all) /\ list[i].value = all[list[i].pos]
    /\ \A i, j \in 1..Len(list) : i < j => RanksBefore(list[i], list[j])
    /\ \A q \in 1..Len(all) :
           (\A i \in 1..Len(list) : list[i].pos # q) =>
               \A i \in 1..Len(list) : RanksBefore(list[i], [pos |-> q, value |-> all[q]])

\* the ranking part of C15 for the two REST handlers
ApiRankings ==
    /\ (IsPredict /\ resp.status = 200) =>
           TopRanked([i \in 1..Len(resp.top_5_factors) |->
                         [pos |-> DeclaredIndex(resp.top_5_factors[i].feature),
                          value |-> resp.top_5_factors[i].impact]],
                     [i \in 1..Len(FEATURE_NAMES) |-> resp.shap_explanation[i].value],
                     5)
    /\ (IsPanCheck /\ resp.status = 200) =>
           TopRanked([i \in 1..Len(resp.top_5_factors) |->
                         [pos |-> DeclaredIndex(resp.top_5_factors[i].feature),
                          value |-> resp.top_5_factors[i].value]],
                     shap_values_of(model, DataFrame(resp.all_features, FEATURE_NAMES)),
                     5)

\* the ranking part of C15 for generate_narrative
NarrativeRanking ==
    th # None =>
        \A t \in Threads :
            th[t].pc = "narrated" =>
                TopRanked([i \in 1..Len(th[t].ret.narrative) |->
                              [pos |-> th[t].ret.narrative[i].position,
                               value |-> th[t].ret.narrative[i].importance]],
                          th[t].ret.shap_values,
                          3)

\* C15: wherever a top-k list of contributions is produced (/api/predict and
\* /api/pan-check top_5_factors, k = 5; generate_narrative, k = 3) it holds
\* min(k, number of features) entries ranked by absolute contribution
\* descending, entries of equal absolute contribution in declaration order.
C15_StableTopK == ApiRankings /\ NarrativeRanking

\* C17: the model artifact is deserialised at most once per process, however
\* the requests interleave: concurrent first callers of explain_local run one
\* load, and the lending API does not load again for a later request.
C17_LoadedAtMostOnce ==
    artifact["MODEL_PATH"].state = "ok" =>
        /\ loads.explainer <= 1
        /\ loads.api <= 1

\* C18: with a missing or corrupt artifact the service stays up and not ready:
\* the scoring API's process does not die at start-up, the lending API's
\* health check says the model is not loaded and its scoring requests get 503;
\* and when the health check says the model is loaded, no scoring request
\* fails because of the artifact.
C18_NotReadyWhenArtifactBad ==
    /\ flask.state # "crashed"
    /\ artifact["MODEL_PATH"].state # "ok" =>
           /\ "model_loaded" \in DOMAIN api.health => ~api.health.model_loaded
           /\ "status" \in DOMAIN api.predict => api.predict.status = 503
    /\ ("model_loaded" \in DOMAIN api.health /\ "status" \in DOMAIN api.predict) =>
           (api.health.model_loaded => api.predict.status # 500)

(***************************************************************************)
(* Credit-bureau client: properties                                        *)
(***************************************************************************)
\* str.upper().strip(): two inputs that differ only in case or outer whitespace
SamePan(a, b) == strip(upper(a)) = strip(upper(b))

C22_MockWithoutKey ==
    /\ (bureau.ctor # None /\ bureau.client # None) =>
          (bureau.ctor.api_key = "" => bureau.client.provider = "mock")
    /\ bureau.client # None =>
          /\ bureau.client.provider # "mock" => bureau.client.api_key # ""
          /\ bureau.client.api_key = "" => bureau.lookup.sent = <<>>

\* C22 witness: a client asked for a network provider without a key has
\* answered a lookup from the mock bureau, with no request sent
C22_Witness ==
    /\ bureau.pc = "done"
    /\ bureau.ctor.provider = "setu"
    /\ bureau.ctor.api_key = ""
    /\ bureau.client.provider = "mock"
    /\ bureau.lookup.ret.raised = "none"
    /\ bureau.lookup.ret.profile.source = "mock"
    /\ bureau.lookup.sent = <<>>

\* a lookup on a network provider has ended
IsProviderLookupDone ==
    /\ bureau.pc = "done"
    /\ bureau.client.provider # "mock"

\* C24: whatever way a provider call fails (transport error, HTTP error
\* status, error status code in the body, malformed or unexpected body),
\* get_credit_profile raises nothing and returns a profile with source
\* '<provider>_fallback', a non-null error and the model features of the mock
\* profile for the same PAN
C24_FailureYieldsFallback ==
    (IsProviderLookupDone /\ bureau.lookup.failed # "none") =>
        /\ bureau.lookup.ret.raised = "none"
        /\ bureau.lookup.ret.profile.source = bureau.client.provider \o "_fallback"
        /\ bureau.lookup.ret.profile.error # "None"
        /\ bureau.lookup.ret.profile.feats = mock_profile(bureau.lookup.pan).feats

\* C25: in the Perfios flow, after PAN verification succeeded, a failure
\* during BSA submit or polling yields the profile of a lookup in which BSA
\* was not attempted
C25_BsaFailureLeavesNoTrace ==
    (/\ IsProviderLookupDone
     /\ bureau.client.provider = "perfios"
     /\ bureau.lookup.verify # None
     /\ bureau.lookup.verify.pan_verified
     /\ bureau.lookup.bsa = "failed") =>
        bureau.lookup.ret =
            perfios_build(bureau.lookup.pan, bureau.lookup.verify, NoBsa)

\* s is an initial part of t
IsPrefix(s, t) == Len(s) <= Len(t) /\ s = SubSeq(t, 1, Len(s))

\* C26: a Perfios lookup sends its requests in the documented order (token,
\* verification, BSA submit, polls), polls only when a job id was returned, at
\* most 3 times and never after a COMPLETED poll, and ends by returning a
\* profile
C26_PerfiosOrderAndReturn ==
    (bureau.client # None /\ bureau.client.provider = "perfios") =>
        /\ IsPrefix(bureau.lookup.sent,
                    <<"token", "verify", "submit", "poll", "poll", "poll">>)
        /\ bureau.lookup.polls > 0 => bureau.lookup.job_id # ""
        /\ bureau.lookup.polls <= MaxPolls
        /\ bureau.lookup.completedAt # 0 =>
              bureau.lookup.polls = bureau.lookup.completedAt
        /\ bureau.pc = "done" =>
              /\ bureau.lookup.ret.raised = "none"
              /\ bureau.lookup.ret.profile # None

\* C23: to_model_input returns exactly the 20 declared features in the order
\* of FEATURE_NAMES, so that in /api/pan-check the i-th column handed to the
\* model is the feature whose name labels the i-th attribution value
C23_ModelInputInTrainingOrder ==
    /\ {ModelInputKeys[i] : i \in 1..Len(ModelInputKeys)} = FeatureSet
    /\ Len(ModelInputKeys) = Len(FEATURE_NAMES)
    /\ (IsPanCheck /\ modelCalls # <<>>) =>
          /\ Len(modelCalls) = 1
          /\ Len(modelCalls[1]) = Len(FEATURE_NAMES)
          /\ \A i \in 1..Len(FEATURE_NAMES) : modelCalls[1][i].name = FEATURE_NAMES[i]
          /\ resp.status = 200 =>
                /\ DOMAIN resp.all_features = FeatureSet
                /\ \A i \in 1..Len(resp.top_5_factors) :
                     \E j \in 1..Len(FEATURE_NAMES) :
                        /\ resp.top_5_factors[i].feature = modelCalls[1][j].name
                        /\ resp.top_5_factors[i].value =
                              shap_values_of(model, modelCalls[1])[j]

\* C23 witness: a PAN check has scored a bureau profile and named a factor
\* with a non-zero attribution
C23_Witness ==
    /\ IsPanCheck
    /\ resp.status = 200
    /\ Len(modelCalls) = 1
    /\ \E i \in 1..Len(resp.top_5_factors) : resp.top_5_factors[i].value # 0

\* C27: for every score in 300..900, get_decision in the REST API, the badge
\* of the dashboard's PAN check and the verdict of the dashboard's simulator
\* give the same decision
C27_SameDecisionEverywhere ==
    (pc = "returned" /\ call.fn = "get_decision" /\ call.arg \in 300..900) =>
        /\ call.ret.decision = Badge(call.arg)
        /\ call.ret.decision = Verdict(call.arg)

\* a PAN check of the REST API or of the dashboard has been handled
IsAnyPanCheck == pc = "returned" /\ req.endpoint \in {"/api/pan-check", "tab_pan"}

\* 5 letters, 4 digits, 1 letter
IsPanFormat(s) ==
    /\ Len(s) = 10
    /\ \A i \in 1..5 : s[i] \in UpperAZ
    /\ \A i \in 6..9 : s[i] \in Digits
    /\ s[10] \in UpperAZ

\* the PAN of the request is a string, and what it is
HasPanText ==
    IF req.endpoint = "tab_pan" THEN req.json.submitted
    ELSE req.json.hasJson /\ req.json.hasPan /\ req.json.pan.type = "str"
PanText == IF req.endpoint = "tab_pan" THEN req.json.pan ELSE req.json.pan.s

\* C30: in /api/pan-check and in the dashboard, get_credit_profile and
\* predict_proba are called only after the upper-cased, trimmed PAN has
\* matched the format; a PAN that does not match is answered with an error
\* (HTTP 400 in the API) and causes no bureau request
C30_NoCallWithInvalidPan ==
    IsAnyPanCheck =>
        /\ (bureauCalls # <<>> \/ modelCalls # <<>>) =>
              /\ HasPanText
              /\ IsPanFormat(strip(upper(PanText)))
              /\ bureauCalls = <<strip(upper(PanText))>>
        /\ (HasPanText /\ ~IsPanFormat(strip(upper(PanText)))) =>
              /\ bureauCalls = <<>>
              /\ modelCalls = <<>>
              /\ "error" \in DOMAIN resp
              /\ req.endpoint = "/api/pan-check" => resp.status = 400

\* C30 witness: a PAN of ten characters in the wrong pattern was refused by
\* the API with status 400 before any lookup
C30_Witness ==
    /\ IsAnyPanCheck
    /\ req.endpoint = "/api/pan-check"
    /\ HasPanText
    /\ Len(strip(upper(PanText))) = 10
    /\ ~IsPanFormat(strip(upper(PanText)))
    /\ resp.status = 400
    /\ bureauCalls = <<>>
    /\ modelCalls = <<>>

(***************************************************************************)
(* ModelExplainer: the state left by load_resources                        *)
(***************************************************************************)
\* no thread is inside load_resources
NoLoadRunning ==
    \A t \in Threads :
        th[t].pc \notin {"lr_exists", "lr_load", "lr_data", "lr_shap", "lr_names",
                         "lr_tree", "lr_flag", "lr_lime"}

\* everything explain_local reads after the loading check is assigned
ResourcesSet ==
    /\ mx.explainer_lime # "None"
    /\ mx.X_train # "None"
    /\ mx.feature_names # "None"
    /\ mx.use_transformed_data # "unset"

\* C28: between calls, a non-null explainer_shap implies that explainer_lime,
\* X_train, feature_names and use_transformed_data are initialised too, also
\* after a load that raised part-way; and explain_local never goes past its
\* loading check while one of them is unset
C28_ShapImpliesAllLoaded ==
    /\ (NoLoadRunning /\ mx.explainer_shap # "None") => ResourcesSet
    /\ \A t \in Threads : th[t].pc \in {"el_shap", "el_lime"} => ResourcesSet

\* the columns of X_train
ColumnsOf(X) == FeatureNamesOf(X)

\* C29: once load_resources has completed, by whichever branch, feature_names
\* holds exactly one name per column of X_train, in column order
C29_FeatureNamesMatchColumns ==
    (mx.explainer_lime # "None") =>
        /\ Len(FeatureNamesOf(mx.feature_names)) = Len(ColumnsOf(mx.X_train))
        /\ FeatureNamesOf(mx.feature_names) = ColumnsOf(mx.X_train)
====
